---- MODULE Spec2Model ----
(***************************************************************************)
(* Knowledge-retrieval and context-assembly pipeline of tools/neo4j_rag.py *)
(* (class SNESRAGPipeline) with the reference lookups of                   *)
(* tools/mcp_client.py.                                                    *)
(*                                                                         *)
(* Text is a sequence of one-character strings, so that substring          *)
(* containment, str.find, str.lower, slicing and the regular expressions   *)
(* are computed character by character as Python computes them.  The       *)
(* string returned by build_context is kept as the list of parts that the  *)
(* code joins with "\n": [header] + context_parts + [footer]; the empty    *)
(* string is the empty list.                                               *)
(***************************************************************************)
EXTENDS Integers, Sequences, FiniteSets, TLC

VARIABLES
  driver,     \* self.driver: "none" (None), "open" (live driver), "closed" (closed driver object)
  connects,   \* connection attempts made by this pipeline instance (GraphDatabase.driver calls)
  seed,       \* string-hash seed of the running interpreter (fixes set iteration order)
  mcp,        \* MCP_AVAILABLE: mcp_client could be imported
  store,      \* contents of the graph store
  prompt,     \* the query text and max_items the host submits
  call,       \* the last call on the pipeline and what it returned
  injected    \* the first context build_context returned for the current prompt

vars == <<driver, connects, seed, mcp, store, prompt, call, injected>>

----------------------------------------------------------------------------
(* Python str primitives *)

\* str.lower() and str.upper() on one character (ASCII letters)
LowerOf ==
  ("A" :> "a") @@ ("B" :> "b") @@ ("C" :> "c") @@ ("D" :> "d") @@ ("E" :> "e") @@ ("F" :> "f")
    @@ ("G" :> "g") @@ ("H" :> "h") @@ ("I" :> "i") @@ ("J" :> "j") @@ ("K" :> "k") @@ ("L" :> "l")
    @@ ("M" :> "m") @@ ("N" :> "n") @@ ("O" :> "o") @@ ("P" :> "p") @@ ("Q" :> "q") @@ ("R" :> "r")
    @@ ("S" :> "s") @@ ("T" :> "t") @@ ("U" :> "u") @@ ("V" :> "v") @@ ("W" :> "w") @@ ("X" :> "x")
    @@ ("Y" :> "y") @@ ("Z" :> "z")
UpperOf ==
  ("a" :> "A") @@ ("b" :> "B") @@ ("c" :> "C") @@ ("d" :> "D") @@ ("e" :> "E") @@ ("f" :> "F")
    @@ ("g" :> "G") @@ ("h" :> "H") @@ ("i" :> "I") @@ ("j" :> "J") @@ ("k" :> "K") @@ ("l" :> "L")
    @@ ("m" :> "M") @@ ("n" :> "N") @@ ("o" :> "O") @@ ("p" :> "P") @@ ("q" :> "Q") @@ ("r" :> "R")
    @@ ("s" :> "S") @@ ("t" :> "T") @@ ("u" :> "U") @@ ("v" :> "V") @@ ("w" :> "W") @@ ("x" :> "X")
    @@ ("y" :> "Y") @@ ("z" :> "Z")

lower_char(c) == IF c \in DOMAIN LowerOf THEN LowerOf[c] ELSE c
upper_char(c) == IF c \in DOMAIN UpperOf THEN UpperOf[c] ELSE c

\* str.lower() / str.upper()
lower(s) == SubSeq([i \in 1..Len(s) |-> lower_char(s[i])], 1, Len(s))
upper(s) == SubSeq([i \in 1..Len(s) |-> upper_char(s[i])], 1, Len(s))

\* p occurs in t starting at 1-based index i
MatchAt(t, p, i) == \A j \in 1..Len(p) : t[i + j - 1] = p[j]

\* Python "p in t"
Contains(t, p) ==
  \/ p = << >>
  \/ \E i \in 1..(Len(t) - Len(p) + 1) : t[i] = p[1] /\ MatchAt(t, p, i)

\* Python t.find(p): 0-based index of the first occurrence, -1 when absent
find(t, p) ==
  LET hits == {i \in 1..(Len(t) - Len(p) + 1) : (p = << >> \/ t[i] = p[1]) /\ MatchAt(t, p, i)}
  IN  IF hits = {} THEN -1 ELSE (CHOOSE i \in hits : \A j \in hits : i <= j) - 1

\* Python s[:n] (n may be negative)
SliceTo(s, n) ==
  IF n >= 0
    THEN SubSeq(s, 1, IF n < Len(s) THEN n ELSE Len(s))
    ELSE SubSeq(s, 1, IF Len(s) + n > 0 THEN Len(s) + n ELSE 0)

\* str.replace(" ", "-")
replace_space(s) == SubSeq([i \in 1..Len(s) |-> IF s[i] = " " THEN "-" ELSE s[i]], 1, Len(s))
\* str.replace(c, "") for a single character c
NotDollar(c) == c # "$"
remove_dollar(s) == SelectSeq(s, NotDollar)

RECURSIVE join(_, _)
\* sep.join(list)
join(sep, list) ==
  IF list = << >> THEN << >>
  ELSE IF Len(list) = 1 THEN list[1]
  ELSE list[1] \o sep \o join(sep, Tail(list))

\* elements of a sequence
Range(s) == {s[i] : i \in 1..Len(s)}

----------------------------------------------------------------------------
(* extract_keywords: the fixed vocabulary lists *)

mod_keywords ==
  << <<"i","n","f","i","n","i","t","e","-","m","a","g","i","c">>, <<"i","n","f","i","n","i","t",
      "e"," ","m","a","g","i","c">>, <<"m","a","g","i","c">>, <<"2","x","-","s","p","e","e","d">>,
     <<"2","x"," ","s","p","e","e","d">>, <<"d","o","u","b","l","e"," ","s","p","e","e","d">>, <<
         "s","p","e","e","d">>, <<"m","a","x","-","h","e","a","r","t","s">>,
     <<"m","a","x"," ","h","e","a","r","t","s">>, <<"h","e","a","l","t","h">>, <<"h","e","a","r",
         "t","s">>, <<"i","n","t","r","o","-","s","k","i","p">>,
     <<"i","n","t","r","o"," ","s","k","i","p">>, <<"q","u","i","c","k","-","s","t","a","r","t"
         >>, <<"q","u","i","c","k"," ","s","t","a","r","t">>, <<"t","e","a","m","-","s","o","l",
         "u","t","i","o","n">>,
     <<"u","l","t","i","m","a","t","e">> >>

hardware_keywords ==
  << <<"p","p","u">>, <<"c","p","u">>, <<"d","m","a">>, <<"h","d","m","a">>,
     <<"a","p","u">>, <<"s","p","c","7","0","0">>, <<"r","e","g","i","s","t","e","r">>, <<"r","e",
         "g","i","s","t","e","r","s">>,
     <<"$","2","1","0","0">>, <<"$","4","2","0","0">>, <<"v","b","l","a","n","k">>, <<"h","b","l",
         "a","n","k">>,
     <<"s","p","r","i","t","e">>, <<"o","a","m">>, <<"b","g","m","o","d","e">>, <<"b","a","c","k",
         "g","r","o","u","n","d">>,
     <<"t","i","l","e","m","a","p">> >>

component_keywords ==
  << <<"p","l","a","y","e","r">>, <<"s","p","r","i","t","e">>, <<"a","n","c","i","l","l","a">>, <<
      "d","u","n","g","e","o","n">>,
     <<"o","v","e","r","w","o","r","l","d">>, <<"h","u","d">>, <<"a","u","d","i","o">>, <<"m","u",
         "s","i","c">>,
     <<"e","n","d","i","n","g">>, <<"a","t","t","r","a","c","t">>, <<"m","e","n","u">> >>

project_keywords ==
  << <<"z","e","l","d","a","3">>, <<"z","e","l","d","a"," ","3">>, <<"l","i","n","k"," ","t","o",
      " ","t","h","e"," ","p","a","s","t">>, <<"a","l","t","t","p">>,
     <<"b","s","n","e","s">>, <<"s","n","e","s","9","x">>, <<"e","m","u","l","a","t","o","r">>, <<
         "d","i","s","a","s","s","e","m","b","l","y">>,
     <<"d","e","c","o","m","p","i","l","a","t","i","o","n">> >>

memory_keywords ==
  << <<"w","r","a","m">>, <<"s","r","a","m">>, <<"r","o","m">>, <<"m","e","m","o","r","y">>,
     <<"b","a","n","k">>, <<"a","d","d","r","e","s","s">>, <<"p","o","i","n","t","e","r">> >>

all_keywords ==
  mod_keywords \o hardware_keywords \o component_keywords \o project_keywords \o memory_keywords

\* variant: the "$" left in place
normalize_spaces(keyword) == replace_space(keyword)

\* keyword.replace(" ", "-").replace("$", "")
normalize_keyword(keyword) == remove_dollar(replace_space(keyword))

extract_keywords(text) ==
  LET text_lower == lower(text)
  IN  {normalize_keyword(all_keywords[i]) :
         i \in {j \in 1..Len(all_keywords) : Contains(text_lower, all_keywords[j])}}


----------------------------------------------------------------------------
(* Iteration order of a Python set of strings.  The language leaves it       *)
(* unspecified: it follows the strings' hashes, which are salted per         *)
(* interpreter process.  One process iterates equal sets in the same order.  *)

\* code points of the characters that occur in keywords, mnemonics and addresses
CodePoint ==
  (" " :> 32) @@ ("$" :> 36) @@ ("-" :> 45) @@ ("." :> 46) @@ ("0" :> 48) @@ ("1" :> 49)
    @@ ("2" :> 50) @@ ("3" :> 51) @@ ("4" :> 52) @@ ("5" :> 53) @@ ("6" :> 54) @@ ("7" :> 55)
    @@ ("8" :> 56) @@ ("9" :> 57) @@ ("?" :> 63) @@ ("A" :> 65) @@ ("B" :> 66) @@ ("C" :> 67)
    @@ ("D" :> 68) @@ ("E" :> 69) @@ ("F" :> 70) @@ ("G" :> 71) @@ ("H" :> 72) @@ ("I" :> 73)
    @@ ("J" :> 74) @@ ("K" :> 75) @@ ("L" :> 76) @@ ("M" :> 77) @@ ("N" :> 78) @@ ("O" :> 79)
    @@ ("P" :> 80) @@ ("Q" :> 81) @@ ("R" :> 82) @@ ("S" :> 83) @@ ("T" :> 84) @@ ("U" :> 85)
    @@ ("V" :> 86) @@ ("W" :> 87) @@ ("X" :> 88) @@ ("Y" :> 89) @@ ("Z" :> 90) @@ ("_" :> 95)
    @@ ("a" :> 97) @@ ("b" :> 98) @@ ("c" :> 99) @@ ("d" :> 100) @@ ("e" :> 101) @@ ("f" :> 102)
    @@ ("g" :> 103) @@ ("h" :> 104) @@ ("i" :> 105) @@ ("j" :> 106) @@ ("k" :> 107) @@ ("l" :> 108)
    @@ ("m" :> 109) @@ ("n" :> 110) @@ ("o" :> 111) @@ ("p" :> 112) @@ ("q" :> 113) @@ ("r" :> 114)
    @@ ("s" :> 115) @@ ("t" :> 116) @@ ("u" :> 117) @@ ("v" :> 118) @@ ("w" :> 119) @@ ("x" :> 120)
    @@ ("y" :> 121) @@ ("z" :> 122)

ord(c) == IF c \in DOMAIN CodePoint THEN CodePoint[c] ELSE 0

RECURSIVE hash_from(_, _, _, _)
hash_from(s, i, h, sd) ==
  IF i > Len(s) THEN h
  ELSE hash_from(s, i + 1, ((31 + 6 * sd) * h + ord(s[i]) + 17 * sd) % 1021, sd)

\* salted string hash
str_hash(s, sd) == hash_from(s, 1, 7 * sd, sd)

\* code-point comparison of two strings (Python str <, Cypher ORDER BY)
StrLess(a, b) ==
  \E i \in 1..(Len(a) + 1) :
     /\ i <= Len(b)
     /\ \A j \in 1..(i - 1) : a[j] = b[j]
     /\ (i = Len(a) + 1 \/ ord(a[i]) < ord(b[i]))

SlotBefore(a, b, sd) ==
  \/ str_hash(a, sd) < str_hash(b, sd)
  \/ (str_hash(a, sd) = str_hash(b, sd) /\ StrLess(a, b))

RECURSIVE set_iter(_, _)
\* list(S) / "for x in S" of a set S of strings under hash seed sd
set_iter(S, sd) ==
  IF S = {} THEN << >>
  ELSE LET first == CHOOSE x \in S : \A y \in S \ {x} : SlotBefore(x, y, sd)
       IN  <<first>> \o set_iter(S \ {first}, sd)

----------------------------------------------------------------------------
(* The graph store: the four bounded retrievals *)

\* a null property value of the store (Python None in a row)
Null == <<"None">>

Families == <<"mods", "registers", "components", "knowledge">>

\* any(k in keywords for k in names)
any_in(names, keywords) == \E i \in 1..Len(names) : names[i] \in keywords

Head3(s) == SubSeq(s, 1, IF Len(s) < 3 THEN Len(s) ELSE 3)
Head5(s) == SubSeq(s, 1, IF Len(s) < 5 THEN Len(s) ELSE 5)

\* variant: no keyword narrows the mod types (the properties must tell it apart)
mod_types_none(keywords) == {}

\* mod types a keyword set selects (get_relevant_mods)
mod_types(keywords) ==
  (IF any_in(<<<<"m","a","g","i","c">>, <<"i","n","f","i","n","i","t","e","-","m","a","g","i","c"
      >>>>, keywords) THEN {<<"m","a","g","i","c">>} ELSE {})
  \cup (IF any_in(<<<<"s","p","e","e","d">>, <<"2","x","-","s","p","e","e","d">>, <<"d","o","u",
      "b","l","e","-","s","p","e","e","d">>>>, keywords) THEN {<<"s","p","e","e","d">>} ELSE {})
  \cup (IF any_in(<<<<"h","e","a","l","t","h">>, <<"h","e","a","r","t","s">>, <<"m","a","x","-",
      "h","e","a","r","t","s">>>>, keywords) THEN {<<"h","e","a","l","t","h">>} ELSE {})

\* MATCH (m:Mod) [WHERE m.type IN $types] ... [LIMIT 3]
query_mods(st, keywords) ==
  LET types == mod_types(keywords)
      TypeIn(m) == m.type \in types
  IN  IF types # {} THEN SelectSeq(st.mods, TypeIn) ELSE Head3(st.mods)

\* register category a keyword set selects (get_relevant_registers); Null when none
register_category(keywords) ==
  IF any_in(<<<<"p","p","u">>, <<"s","p","r","i","t","e">>, <<"b","a","c","k","g","r","o","u","n",
      "d">>, <<"b","g","m","o","d","e">>>>, keywords) THEN <<"p","p","u">>
  ELSE IF any_in(<<<<"c","p","u">>, <<"i","n","t","e","r","r","u","p","t">>, <<"n","m","i">>, <<
      "i","r","q">>>>, keywords) THEN <<"c","p","u">>
  ELSE IF any_in(<<<<"d","m","a">>, <<"h","d","m","a">>>>, keywords) THEN <<"d","m","a">>
  ELSE Null

RECURSIVE order_by_address(_)
\* ORDER BY r.address (addresses are unique in the store)
order_by_address(rows) ==
  IF rows = << >> THEN << >>
  ELSE LET i == CHOOSE i \in 1..Len(rows) :
                   \A j \in 1..Len(rows) : j = i \/ StrLess(rows[i].address, rows[j].address)
           rest == SubSeq(rows, 1, i - 1) \o SubSeq(rows, i + 1, Len(rows))
       IN  <<rows[i]>> \o order_by_address(rest)

\* MATCH (r:Register [{category: $category}]) ... ORDER BY r.address LIMIT 5
query_registers(st, keywords) ==
  LET category == register_category(keywords)
      InCategory(r) == r.category = category
  IN  IF category # Null
        THEN Head5(order_by_address(SelectSeq(st.registers, InCategory)))
        ELSE Head5(order_by_address(st.registers))

\* component names a keyword set selects (get_relevant_components)
component_names(keywords) ==
  (IF <<"p","l","a","y","e","r">> \in keywords THEN {<<"p","l","a","y","e","r">>} ELSE {})
  \cup (IF any_in(<<<<"s","p","r","i","t","e">>, <<"s","p","r","i","t","e","_","s","y","s","t",
      "e","m">>>>, keywords) THEN {<<"s","p","r","i","t","e","_","s","y","s","t","e","m"
      >>} ELSE {})
  \cup (IF any_in(<<<<"d","u","n","g","e","o","n">>, <<"d","u","n","g","e","o","n","_","s","y",
      "s","t","e","m">>>>, keywords) THEN {<<"d","u","n","g","e","o","n","_","s","y","s","t","e",
      "m">>} ELSE {})

\* MATCH (c:Component) [WHERE c.name IN $names] ... [LIMIT 3]
query_components(st, keywords) ==
  LET names == component_names(keywords)
      NameIn(c) == c.name \in names
  IN  IF names # {} THEN SelectSeq(st.components, NameIn) ELSE Head3(st.components)

\* Cypher: text CONTAINS keyword (case-sensitive; null CONTAINS x is not true)
cypher_contains(text, kw) == text # Null /\ Contains(text, kw)

\* MATCH (k:Knowledge) WHERE ANY(tag ...) OR ANY(keyword ...) ... LIMIT 3
query_knowledge(st, keywords) ==
  LET Hit(k) == \/ k.tags \cap keywords # {}
                \/ \E kw \in keywords : cypher_contains(k.topic, kw) \/ cypher_contains(k.content, kw)
  IN  Head3(SelectSeq(st.knowledge, Hit))

run_query(family, st, keywords) ==
  CASE family = "mods" -> query_mods(st, keywords)
    [] family = "registers" -> query_registers(st, keywords)
    [] family = "components" -> query_components(st, keywords)
    [] family = "knowledge" -> query_knowledge(st, keywords)

\* get_relevant_mods / _registers / _components / _knowledge.  fault names the
\* family whose store query fails ("none": no failure).  Result: the rows, whether
\* an exception left the method, and whether a session was asked of the driver.
get_relevant(family, keywords, drv, st, fault) ==
  IF drv = "none" THEN [rows |-> << >>, raised |-> FALSE, session |-> FALSE]
  ELSE IF drv = "closed" THEN [rows |-> << >>, raised |-> TRUE, session |-> TRUE]
  ELSE IF fault = family THEN [rows |-> << >>, raised |-> TRUE, session |-> TRUE]
  ELSE [rows |-> run_query(family, st, keywords), raised |-> FALSE, session |-> TRUE]

----------------------------------------------------------------------------
(* Reference lookups (mcp_client.py) and the two pattern detectors *)

instruction_pattern ==
  { <<"L","D","A">>, <<"S","T","A">>, <<"L","D","X">>, <<"S","T","X">>, <<"L","D","Y">>, <<"S",
      "T","Y">>,
    <<"J","S","R">>, <<"J","S","L">>, <<"J","M","P">>, <<"J","M","L">>, <<"B","E","Q">>, <<"B",
        "N","E">>,
    <<"B","C","C">>, <<"B","C","S">>, <<"B","M","I">>, <<"B","P","L">>, <<"B","V","C">>, <<"B",
        "V","S">>,
    <<"B","R","A">>, <<"B","R","L">>, <<"A","D","C">>, <<"S","B","C">>, <<"A","N","D">>, <<"O",
        "R","A">>,
    <<"E","O","R">>, <<"C","M","P">>, <<"C","P","X">>, <<"C","P","Y">>, <<"I","N","C">>, <<"D",
        "E","C">>,
    <<"I","N","X">>, <<"D","E","X">>, <<"I","N","Y">>, <<"D","E","Y">>, <<"A","S","L">>, <<"L",
        "S","R">>,
    <<"R","O","L">>, <<"R","O","R">>, <<"P","H","P">>, <<"P","L","P">>, <<"P","H","A">>, <<"P",
        "L","A">>,
    <<"P","H","X">>, <<"P","L","X">>, <<"P","H","Y">>, <<"P","L","Y">>, <<"P","H","B">>, <<"P",
        "L","B">>,
    <<"P","H","D">>, <<"P","L","D">>, <<"P","H","K">>, <<"R","T","I">>, <<"R","T","S">>, <<"R",
        "T","L">>,
    <<"S","E","I">>, <<"C","L","I">>, <<"S","E","C">>, <<"C","L","C">>, <<"S","E","D">>, <<"C",
        "L","D">>,
    <<"S","E","P">>, <<"R","E","P">>, <<"X","C","E">>, <<"N","O","P">>, <<"W","D","M">>, <<"C",
        "O","P">>,
    <<"B","R","K">>, <<"W","A","I">>, <<"S","T","P">>, <<"T","X","A">>, <<"T","A","X">>, <<"T",
        "Y","A">>,
    <<"T","A","Y">>, <<"T","X","S">>, <<"T","S","X">>, <<"T","X","Y">>, <<"T","Y","X">>, <<"T",
        "C","D">>,
    <<"T","D","C">>, <<"T","C","S">>, <<"T","S","C">>, <<"X","B","A">> }


\* Python None as the result of a reference lookup
None == [none |-> TRUE]

\* keys of the simulated instruction database of snes_lookup_instruction
instructions ==
  { <<"L","D","A">>, <<"S","T","A">>, <<"J","S","R">>, <<"J","M","P">>, <<"B","E","Q">>, <<"B",
      "N","E">>, <<"C","M","P">>,
    <<"I","N","C">>, <<"D","E","C">>, <<"A","N","D">>, <<"O","R","A">>, <<"R","E","P">>, <<"S",
        "E","P">> }

\* snes_lookup_instruction(mnemonic=...): the reference record, None when unknown
snes_lookup_instruction(mnemonic) ==
  IF mnemonic = << >> THEN None
  ELSE IF upper(mnemonic) \in instructions
    THEN [mnemonic |-> upper(mnemonic), notes |-> TRUE]
    ELSE None

\* \w of the regular expressions
HexDigit ==
  ("0" :> 0) @@ ("1" :> 1) @@ ("2" :> 2) @@ ("3" :> 3) @@ ("4" :> 4) @@ ("5" :> 5)
    @@ ("6" :> 6) @@ ("7" :> 7) @@ ("8" :> 8) @@ ("9" :> 9) @@ ("A" :> 10) @@ ("B" :> 11)
    @@ ("C" :> 12) @@ ("D" :> 13) @@ ("E" :> 14) @@ ("F" :> 15)
DigitCs == {"0", "1", "2", "3", "4", "5", "6", "7", "8", "9"}

is_word(c) == c \in DOMAIN LowerOf \/ c \in DOMAIN UpperOf \/ c \in DigitCs \/ c = "_"
is_hex(c) == upper_char(c) \in DOMAIN HexDigit

\* \b between 1-based positions i and i+1 of t (i = 0: start, i = Len(t): end)
word_boundary(t, i) ==
  LET left == i >= 1 /\ is_word(t[i])
      right == i + 1 <= Len(t) /\ is_word(t[i + 1])
  IN  left # right

\* re.findall(instruction_pattern, text): the matches, left to right
findall_instructions(text) ==
  LET At(i) == /\ i + 2 <= Len(text)
               /\ word_boundary(text, i - 1)
               /\ SubSeq(text, i, i + 2) \in instruction_pattern
               /\ word_boundary(text, i + 2)
      starts == SelectSeq([i \in 1..Len(text) |-> i], At)
  IN  [k \in 1..Len(starts) |-> SubSeq(text, starts[k], starts[k] + 2)]

\* the lookup loop: the reference entry of every mnemonic that has one
lookup_instructions(unique_instructions) ==
  LET Resolved(h) == h # None
  IN  SelectSeq([i \in 1..Len(unique_instructions) |->
                   snes_lookup_instruction(unique_instructions[i])], Resolved)

\* variant: every detected mnemonic looked up, no cut to five
detect_all_instructions(user_prompt, mcpAvail, sd) ==
  IF ~mcpAvail THEN << >>
  ELSE lookup_instructions(set_iter(Range(findall_instructions(upper(user_prompt))), sd))

\* detect_and_explain_instructions
detect_and_explain_instructions(user_prompt, mcpAvail, sd) ==
  IF ~mcpAvail THEN << >>
  ELSE lookup_instructions(
         SliceTo(set_iter(Range(findall_instructions(upper(user_prompt))), sd), 5))

\* number of hex digits matched by \$([0-9A-Fa-f]{4,6})\b at the "$" at index i; 0: no match
address_match_len(text, i) ==
  LET Ok(n) == /\ i + n <= Len(text)
               /\ \A j \in 1..n : is_hex(text[i + j])
               /\ word_boundary(text, i + n)
  IN  IF text[i] # "$" THEN 0
      ELSE IF Ok(6) THEN 6 ELSE IF Ok(5) THEN 5 ELSE IF Ok(4) THEN 4 ELSE 0

\* re.findall(address_pattern, text): the captured digit groups, left to right
findall_addresses(text) ==
  LET At(i) == address_match_len(text, i) > 0
      starts == SelectSeq([i \in 1..Len(text) |-> i], At)
  IN  [k \in 1..Len(starts) |->
         SubSeq(text, starts[k] + 1, starts[k] + address_match_len(text, starts[k]))]

RECURSIVE hex_value(_)
\* int(s, 16)
hex_value(s) ==
  IF s = << >> THEN 0
  ELSE 16 * hex_value(SubSeq(s, 1, Len(s) - 1)) + HexDigit[s[Len(s)]]

ppu_registers ==
  << <<"I","N","I","D","I","S","P">>, <<"O","B","J","S","E","L">>, <<"O","A","M","A","D","D","L"
      >>, <<"O","A","M","A","D","D","H">>, <<"O","A","M","D","A","T","A">>, <<"B","G","M","O","D",
      "E">>, <<"M","O","S","A","I","C">>, <<"B","G","1","S","C">> >>
cpu_registers ==
  << <<"N","M","I","T","I","M","E","N">>, <<"W","R","I","O">>, <<"W","R","M","P","Y","A">>, <<"W",
      "R","M","P","Y","B">>, <<"W","R","D","I","V","L">>, <<"W","R","D","I","V","H">>, <<"W","R",
      "D","I","V","B">> >>

\* the region of a parsed address; bank is read for 24-bit addresses only
region_of(addr, addr_val, bank) ==
  LET Rec(name, region) == [address |-> <<"$">> \o addr, name |-> name, region |-> region]
  IN  IF 8448 <= addr_val /\ addr_val <= 8703      \* 0x2100 .. 0x21FF
        THEN IF addr_val - 8448 < Len(ppu_registers)
               THEN Rec(ppu_registers[addr_val - 8448 + 1], <<"H","a","r","d","w","a","r","e"," ",
                   "R","e","g","i","s","t","e","r","s">>)
               ELSE Rec(<< >>, <<"P","P","U"," ","R","e","g","i","s","t","e","r","s">>)
      ELSE IF 16896 <= addr_val /\ addr_val <= 17663    \* 0x4200 .. 0x44FF
        THEN IF addr_val - 16896 < Len(cpu_registers)
               THEN Rec(cpu_registers[addr_val - 16896 + 1], <<"H","a","r","d","w","a","r","e",
                   " ","R","e","g","i","s","t","e","r","s">>)
               ELSE Rec(<< >>, <<"C","P","U","/","D","M","A"," ","R","e","g","i","s","t","e","r",
                   "s">>)
      ELSE IF Len(addr) = 6 /\ bank \in {<<"7","E">>, <<"7","F">>} THEN Rec(<< >>, <<"W","R","A",
          "M"," ","(","W","o","r","k"," ","R","A","M",")">>)
      ELSE IF Len(addr) = 6 /\ bank[1] = "8" /\ is_hex(bank[2]) THEN Rec(<< >>, <<"R","O","M"," ",
          "(","L","o","R","O","M"," ","m","a","p","p","i","n","g",")">>)
      ELSE Rec(<< >>, <<"U","n","k","n","o","w","n">>)

\* addr parsed as a 16-bit or a 24-bit address (its low 16 bits and its bank)
parse_address(addr) ==
  IF Len(addr) = 4 THEN region_of(addr, hex_value(addr), << >>)
  ELSE IF Len(addr) = 6 THEN region_of(addr, hex_value(SubSeq(addr, 3, 6)), SubSeq(addr, 1, 2))
  ELSE None

\* snes_memory_map(address=...): the region record, None when the address does not parse.
\* name is << >> when the record has no 'name' key.
snes_memory_map(address) ==
  IF address = << >> THEN None ELSE parse_address(upper(remove_dollar(address)))

\* the lookup loop: the region record of every address that parses
lookup_addresses(unique_addresses) ==
  LET Resolved(r) == r # None
  IN  SelectSeq([i \in 1..Len(unique_addresses) |->
                   snes_memory_map(<<"$">> \o unique_addresses[i])], Resolved)

\* detect_and_explain_addresses
detect_and_explain_addresses(user_prompt, mcpAvail, sd) ==
  IF ~mcpAvail THEN << >>
  ELSE lookup_addresses(SliceTo(set_iter(Range(findall_addresses(user_prompt)), sd), 10))

----------------------------------------------------------------------------
(* calculate_relevance_score and rerank_results *)

HasKey(item, k) == k \in DOMAIN item

\* variant: the fields joined with no space after them
text_part_bare(item, k) == IF HasKey(item, k) THEN lower(item[k]) ELSE << >>

\* item[k].lower() + " " for a key the row has, "" otherwise
text_part(item, k) == IF HasKey(item, k) THEN lower(item[k]) \o <<" ">> ELSE << >>

searchable_text(item) ==
  text_part(item, "name") \o text_part(item, "description")
    \o text_part(item, "topic") \o text_part(item, "content")

\* None.lower(): a null name, description, topic or content raises AttributeError
score_raises(item) ==
  \E k \in {"name", "description", "topic", "content"} : HasKey(item, k) /\ item[k] = Null

RECURSIVE position_bonus(_, _)
\* Factor 3: the loop over the keyword set, kws in iteration order
position_bonus(kws, text) ==
  IF kws = << >> THEN 0
  ELSE LET position == find(text, Head(kws))
       IN  IF position >= 0 /\ position < 50 THEN 3
           ELSE IF position >= 0 /\ position < 100 THEN 2
           ELSE position_bonus(Tail(kws), text)

\* variant: Factor 1 without its cap of 10
score_uncapped(item, query, keywords, sd) ==
  LET text == searchable_text(item)
      matches == Cardinality({kw \in keywords : Contains(text, kw)})
      exact == IF Contains(text, lower(query)) THEN 5 ELSE 0
      richness == IF Len(text) > 100 THEN 2 ELSE IF Len(text) > 50 THEN 1 ELSE 0
  IN  matches * 2 + exact + position_bonus(set_iter(keywords, sd), text) + richness

calculate_relevance_score(item, query, keywords, sd) ==
  LET text == searchable_text(item)
      matches == Cardinality({kw \in keywords : Contains(text, kw)})
      hit == IF matches * 2 < 10 THEN matches * 2 ELSE 10
      exact == IF Contains(text, lower(query)) THEN 5 ELSE 0
      richness == IF Len(text) > 100 THEN 2 ELSE IF Len(text) > 50 THEN 1 ELSE 0
  IN  hit + exact + position_bonus(set_iter(keywords, sd), text) + richness

\* variant: an unstable sort, a candidate put ahead of those of equal score
insert_before_equal(sorted, x) ==
  LET n == Cardinality({i \in 1..Len(sorted) : sorted[i].score > x.score})
  IN  SubSeq(sorted, 1, n) \o <<x>> \o SubSeq(sorted, n + 1, Len(sorted))

\* list.sort(key=score, reverse=True): stable, equal scores keep their order
insert_desc(sorted, x) ==
  LET n == Cardinality({i \in 1..Len(sorted) : sorted[i].score >= x.score})
  IN  SubSeq(sorted, 1, n) \o <<x>> \o SubSeq(sorted, n + 1, Len(sorted))

RECURSIVE sort_desc(_)
sort_desc(s) ==
  IF s = << >> THEN << >>
  ELSE insert_desc(sort_desc(SubSeq(s, 1, Len(s) - 1)), s[Len(s)])

\* scored_items after the sort: (score, item) pairs with score > 0
scored_items(all_items, query, keywords, sd) ==
  LET pairs == [i \in 1..Len(all_items) |->
                  [score |-> calculate_relevance_score(all_items[i], query, keywords, sd),
                   item |-> all_items[i]]]
      Relevant(p) == p.score > 0
  IN  sort_desc(SelectSeq(pairs, Relevant))

\* [item for score, item in ...]
items_of(pairs) == [i \in 1..Len(pairs) |-> pairs[i].item]

\* variant: every candidate in retrieval order, unfiltered and uncut
rerank_all(all_items, query, keywords, max_items, sd) == all_items

\* rerank_results (called on rows that all score without raising)
rerank_results(all_items, query, keywords, max_items, sd) ==
  items_of(SliceTo(scored_items(all_items, query, keywords, sd), max_items))

----------------------------------------------------------------------------
(* build_context *)

\* variant: availability not tied to the driver
always_available(drv) == TRUE

is_available(drv) == drv # "none"

\* row with row['_type'] = t
with_type(row, t) ==
  [k \in DOMAIN row \cup {"_type"} |-> IF k = "_type" THEN t ELSE row[k]]

tagged(rows, t) == [i \in 1..Len(rows) |-> with_type(rows[i], t)]

of_type(items, t) ==
  LET Is(item) == item._type = t
  IN  SelectSeq(items, Is)

\* variant: the cut applied from 200 characters on
knowledge_content_ge(content) ==
  IF Len(content) >= 200 THEN SliceTo(content, 200) \o <<".",".",".">> ELSE content

\* k['content'][:200] + "..." if len(k['content']) > 200 else k['content']
knowledge_content(content) ==
  IF Len(content) > 200 THEN SliceTo(content, 200) \o <<".",".",".">> ELSE content

mod_line(mod) ==
  <<"mod", mod.name, mod.type, mod.description,
    IF mod.components # << >> THEN join(<<","," ">>, mod.components) ELSE <<"N","/","A"
        >>, mod.bytes>>
register_line(reg) == <<"register", reg.address, reg.name, reg.description>>
component_line(comp) == <<"component", comp.name, comp.type, comp.description>>
knowledge_line(k) == <<"knowledge", k.topic, knowledge_content(k.content)>>

\* variant: the Mods header emitted whether or not a mod was ranked
format_mods_bare(mods) ==
  <<(<<"mods_header">>)>> \o [i \in 1..Len(Head3(mods)) |-> mod_line(mods[i])]

\* a family's section: its header and one line for each of the first cap items
format_mods(mods) ==
  IF mods # << >>
    THEN <<(<<"mods_header">>)>> \o [i \in 1..Len(Head3(mods)) |-> mod_line(mods[i])]
    ELSE << >>
format_registers(registers) ==
  IF registers # << >>
    THEN <<(<<"registers_header">>)>> \o [i \in 1..Len(Head5(registers)) |-> register_line(registers[i])]
    ELSE << >>
format_components(components) ==
  IF components # << >>
    THEN <<(<<"components_header">>)>> \o [i \in 1..Len(Head3(components)) |-> component_line(components[i])]
    ELSE << >>
\* variant: every ranked knowledge item gets a line
format_knowledge_all(knowledge) ==
  IF knowledge # << >>
    THEN <<(<<"knowledge_header">>)>> \o [i \in 1..Len(knowledge) |-> knowledge_line(knowledge[i])]
    ELSE << >>
format_knowledge(knowledge) ==
  IF knowledge # << >>
    THEN <<(<<"knowledge_header">>)>> \o [i \in 1..Len(SliceTo(knowledge, 2)) |-> knowledge_line(knowledge[i])]
    ELSE << >>

RECURSIVE flatten(_)
flatten(ss) == IF ss = << >> THEN << >> ELSE Head(ss) \o flatten(Tail(ss))

instruction_lines(instr) ==
  << <<"instruction", instr.mnemonic>>, <<"modes", instr.mnemonic>>,
     <<"cycles", instr.mnemonic>>, <<"flags", instr.mnemonic>> >>
    \o (IF instr.notes THEN <<(<<"notes", instr.mnemonic>>)>> ELSE << >>)

format_instructions(instruction_help) ==
  IF instruction_help # << >>
    THEN <<(<<"instructions_header">>)>>
           \o flatten([i \in 1..Len(instruction_help) |-> instruction_lines(instruction_help[i])])
    ELSE << >>

address_lines(addr) ==
  << <<"address", addr.address, IF addr.name # << >> THEN addr.name ELSE addr.region>>,
     <<"address_description", addr.address>>,
     <<"address_type", addr.address>> >>

format_addresses(address_info) ==
  IF address_info # << >>
    THEN <<(<<"addresses_header">>)>>
           \o flatten([i \in 1..Len(address_info) |-> address_lines(address_info[i])])
    ELSE << >>

\* variant: the footer counting the items the sections show
footer_of_shown(ranked_items, instruction_count, address_count, mcpAvail) ==
  IF mcpAvail /\ (instruction_count > 0 \/ address_count > 0)
    THEN <<"footer_mcp",
           Len(Head3(of_type(ranked_items, "mod"))) + Len(Head5(of_type(ranked_items, "register")))
             + Len(Head3(of_type(ranked_items, "component")))
             + Len(SliceTo(of_type(ranked_items, "knowledge"), 2)),
           instruction_count + address_count>>
    ELSE <<"footer",
           Len(Head3(of_type(ranked_items, "mod"))) + Len(Head5(of_type(ranked_items, "register")))
             + Len(Head3(of_type(ranked_items, "component")))
             + Len(SliceTo(of_type(ranked_items, "knowledge"), 2)),
           0>>

\* the footer line: items from the graph and, when any, the number of enrichments
footer(ranked_items, instruction_count, address_count, mcpAvail) ==
  IF mcpAvail /\ (instruction_count > 0 \/ address_count > 0)
    THEN <<"footer_mcp", Len(ranked_items), instruction_count + address_count>>
    ELSE <<"footer", Len(ranked_items), 0>>

\* what a build_context call leaves behind: the returned parts (<< >> is ""),
\* whether an exception left it, and what it did on the way
Outcome(ret, raised, keywords, sessions, all_items, ranked_items) ==
  [ret |-> ret, raised |-> raised, keywords |-> keywords, sessions |-> sessions,
   all_items |-> all_items, ranked_items |-> ranked_items]

\* variant: the Knowledge section ahead of the Mods section
parts_knowledge_first(ranked_items, instruction_help, address_info, mcpAvail) ==
  format_knowledge(of_type(ranked_items, "knowledge"))
    \o format_mods(of_type(ranked_items, "mod"))
    \o format_registers(of_type(ranked_items, "register"))
    \o format_components(of_type(ranked_items, "component"))
    \o (IF mcpAvail
          THEN format_instructions(instruction_help) \o format_addresses(address_info)
          ELSE << >>)

\* lines 458-529: the sections of the ranked items, then the enrichment sections
context_parts(ranked_items, instruction_help, address_info, mcpAvail) ==
  format_mods(of_type(ranked_items, "mod"))
    \o format_registers(of_type(ranked_items, "register"))
    \o format_components(of_type(ranked_items, "component"))
    \o format_knowledge(of_type(ranked_items, "knowledge"))
    \o (IF mcpAvail
          THEN format_instructions(instruction_help) \o format_addresses(address_info)
          ELSE << >>)

\* lines 531-549: "" without parts, else header, parts and footer
framed(parts, ranked_items, instruction_help, address_info, mcpAvail) ==
  IF parts = << >> THEN << >>
  ELSE <<(<<"header">>)>> \o parts
         \o <<footer(ranked_items, Len(instruction_help), Len(address_info), mcpAvail)>>

enriched(ranked_items, instruction_help, address_info, mcpAvail) ==
  framed(context_parts(ranked_items, instruction_help, address_info, mcpAvail),
         ranked_items, instruction_help, address_info, mcpAvail)

\* lines 458-549: group, format, enrich, frame.  The footer calls the two
\* detectors again (540-541): in one process they give what they gave before.
assemble(ranked_items, query, mcpAvail, sd) ==
  enriched(ranked_items, detect_and_explain_instructions(query, mcpAvail, sd),
           detect_and_explain_addresses(query, mcpAvail, sd), mcpAvail)

\* lines 455-456 and the rest: "" when nothing is ranked, else the assembled context
ranked(ranked_items, all_items, query, keywords, sessions, sd, mcpAvail) ==
  IF ranked_items = << >>
    THEN Outcome(<< >>, FALSE, keywords, sessions, all_items, ranked_items)
    ELSE Outcome(assemble(ranked_items, query, mcpAvail, sd), FALSE, keywords, sessions,
                 all_items, ranked_items)

\* lines 449-453: "" when nothing was retrieved, else rerank (scoring may raise)
merged(all_items, query, max_items, keywords, sessions, sd, mcpAvail) ==
  IF all_items = << >> THEN Outcome(<< >>, FALSE, keywords, sessions, all_items, << >>)
  ELSE IF \E i \in 1..Len(all_items) : score_raises(all_items[i])
    THEN Outcome(<< >>, TRUE, keywords, sessions, all_items, << >>)
  ELSE ranked(rerank_results(all_items, query, keywords, max_items, sd), all_items, query,
              keywords, sessions, sd, mcpAvail)

\* the sessions opened: up to and including the first retrieval that raises
sessions_of(got) ==
  IF ~got[1].session THEN << >>
  ELSE IF got[1].raised THEN SubSeq(Families, 1, 1)
  ELSE IF got[2].raised THEN SubSeq(Families, 1, 2)
  ELSE IF got[3].raised THEN SubSeq(Families, 1, 3)
  ELSE Families

\* lines 426-447: the rows of the four retrievals tagged and merged; an exception
\* of a retrieval leaves build_context
retrieved(got, query, max_items, keywords, sd, mcpAvail) ==
  IF \E i \in 1..4 : got[i].raised
    THEN Outcome(<< >>, TRUE, keywords, sessions_of(got), << >>, << >>)
    ELSE merged(tagged(got[1].rows, "mod") \o tagged(got[2].rows, "register")
                  \o tagged(got[3].rows, "component") \o tagged(got[4].rows, "knowledge"),
                query, max_items, keywords, sessions_of(got), sd, mcpAvail)

\* lines 426-549: the four retrievals in order, then the rest
retrieve_and_assemble(query, max_items, keywords, drv, st, sd, mcpAvail, fault) ==
  retrieved(<< get_relevant("mods", keywords, drv, st, fault),
               get_relevant("registers", keywords, drv, st, fault),
               get_relevant("components", keywords, drv, st, fault),
               get_relevant("knowledge", keywords, drv, st, fault) >>,
            query, max_items, keywords, sd, mcpAvail)

\* lines 422-424: no keyword, no retrieval
with_keywords(keywords, query, max_items, drv, st, sd, mcpAvail, fault) ==
  IF keywords = {} THEN Outcome(<< >>, FALSE, keywords, << >>, << >>, << >>)
  ELSE retrieve_and_assemble(query, max_items, keywords, drv, st, sd, mcpAvail, fault)

\* variant: no early return on an empty keyword set
build_context_ungated(query, max_items, drv, st, sd, mcpAvail, fault) ==
  IF ~is_available(drv) THEN Outcome(<< >>, FALSE, {}, << >>, << >>, << >>)
  ELSE retrieve_and_assemble(query, max_items, extract_keywords(query), drv, st, sd,
                             mcpAvail, fault)

build_context(query, max_items, drv, st, sd, mcpAvail, fault) ==
  IF ~is_available(drv) THEN Outcome(<< >>, FALSE, {}, << >>, << >>, << >>)
  ELSE with_keywords(extract_keywords(query), query, max_items, drv, st, sd, mcpAvail, fault)

----------------------------------------------------------------------------
(* Stores, prompts and seeds the pipeline is run on *)

StorePopulated ==
  [ mods |-> <<
      [ name |-> <<"i","n","f","i","n","i","t","e","-","m","a","g","i","c">>, type |-> <<"m","a",
          "g","i","c">>,
        description |-> <<"N","e","v","e","r"," ","r","u","n"," ","o","u","t"," ","o","f"," ","m",
            "a","g","i","c"," ","p","o","w","e","r"," ","-"," ","m","a","g","i","c"," ","b","a",
            "r"," ","n","e","v","e","r"," ","d","e","p","l","e","t","e","s">>,
        bytes |-> 7, components |-> <<<<"p","l","a","y","e","r">>>> ],
      [ name |-> <<"2","x","-","s","p","e","e","d">>, type |-> <<"s","p","e","e","d">>,
        description |-> <<"M","o","v","e"," ","a","t"," ","d","o","u","b","l","e"," ","s","p","e",
            "e","d"," ","-"," ","f","a","s","t","e","r"," ","g","a","m","e","p","l","a","y">>,
        bytes |-> 26, components |-> <<<<"p","l","a","y","e","r">>, <<"o","v","e","r","w","o","r",
            "l","d","_","s","y","s","t","e","m">>>> ],
      [ name |-> <<"m","a","x","-","h","e","a","r","t","s">>, type |-> <<"h","e","a","l","t","h">>,
        description |-> <<"S","t","a","r","t"," ","w","i","t","h"," ","m","a","x","i","m","u","m",
            " ","h","e","a","l","t","h">>,
        bytes |-> 4, components |-> <<<<"p","l","a","y","e","r">>>> ],
      [ name |-> <<"i","n","t","r","o","-","s","k","i","p">>, type |-> <<"f","l","o","w">>,
        description |-> <<"S","k","i","p"," ","o","p","e","n","i","n","g"," ","c","u","t","s","c",
            "e","n","e"," ","i","n","s","t","a","n","t","l","y">>,
        bytes |-> 0, components |-> << >> ] >>,
    registers |-> <<
      [ address |-> <<"$","4","2","0","0">>, name |-> <<"N","M","I","T","I","M","E","N"
          >>, category |-> <<"c","p","u">>,
        description |-> <<"I","n","t","e","r","r","u","p","t"," ","E","n","a","b","l","e">> ],
      [ address |-> <<"$","2","1","0","1">>, name |-> <<"O","B","J","S","E","L">>, category |-> <<
          "p","p","u">>,
        description |-> <<"O","b","j","e","c","t"," ","S","i","z","e"," ","a","n","d"," ","C","h",
            "a","r","a","c","t","e","r"," ","S","i","z","e"," ","R","e","g","i","s","t","e","r"
            >> ],
      [ address |-> <<"$","2","1","0","0">>, name |-> <<"I","N","I","D","I","S","P"
          >>, category |-> <<"p","p","u">>,
        description |-> <<"S","c","r","e","e","n"," ","D","i","s","p","l","a","y"," ","R","e","g",
            "i","s","t","e","r"," ","-"," ","b","r","i","g","h","t","n","e","s","s"," ","a","n",
            "d"," ","f","o","r","c","e"," ","b","l","a","n","k">> ],
      [ address |-> <<"$","2","1","0","2">>, name |-> <<"O","A","M","A","D","D","L"
          >>, category |-> <<"p","p","u">>,
        description |-> <<"O","A","M"," ","A","d","d","r","e","s","s">> ],
      [ address |-> <<"$","2","1","0","5">>, name |-> <<"B","G","M","O","D","E">>, category |-> <<
          "p","p","u">>,
        description |-> <<"B","G"," ","M","o","d","e"," ","a","n","d"," ","C","h","a","r","a","c",
            "t","e","r"," ","S","i","z","e"," ","R","e","g","i","s","t","e","r">> ],
      [ address |-> <<"$","2","1","0","6">>, name |-> <<"M","O","S","A","I","C">>, category |-> <<
          "p","p","u">>,
        description |-> <<"M","o","s","a","i","c"," ","R","e","g","i","s","t","e","r">> ],
      [ address |-> <<"$","2","1","0","7">>, name |-> <<"B","G","1","S","C">>, category |-> <<"p",
          "p","u">>,
        description |-> <<"B","G","1"," ","S","c","r","e","e","n"," ","B","a","s","e"," ","a","n",
            "d"," ","S","c","r","e","e","n"," ","S","i","z","e">> ],
      [ address |-> <<"$","4","2","0","B">>, name |-> <<"M","D","M","A","E","N">>, category |-> <<
          "d","m","a">>,
        description |-> <<"D","M","A"," ","E","n","a","b","l","e">> ] >>,
    components |-> <<
      [ name |-> <<"p","l","a","y","e","r">>, type |-> <<"p","l","a","y","e","r">>,
        description |-> <<"C","o","r","e"," ","p","l","a","y","e","r"," ","c","h","a","r","a","c",
            "t","e","r"," ","l","o","g","i","c"," ","a","n","d"," ","m","o","v","e","m","e","n",
            "t">>, file |-> <<"p","l","a","y","e","r",".","c">> ],
      [ name |-> <<"s","p","r","i","t","e","_","s","y","s","t","e","m">>, type |-> <<"g","a","m",
          "e","p","l","a","y">>,
        description |-> <<"S","p","r","i","t","e"," ","m","a","n","a","g","e","m","e","n","t"," ",
            "a","n","d"," ","r","e","n","d","e","r","i","n","g">>, file |-> <<"s","p","r","i","t",
            "e",".","c">> ],
      [ name |-> <<"a","n","c","i","l","l","a","_","s","y","s","t","e","m">>, type |-> <<"g","a",
          "m","e","p","l","a","y">>,
        description |-> <<"A","n","c","i","l","l","a"," ","o","b","j","e","c","t","s"
            >>, file |-> <<"a","n","c","i","l","l","a",".","c">> ],
      [ name |-> <<"d","u","n","g","e","o","n","_","s","y","s","t","e","m">>, type |-> <<"g","a",
          "m","e","p","l","a","y">>,
        description |-> <<"D","u","n","g","e","o","n"," ","l","o","g","i","c",","," ","r","o","o",
            "m","s",","," ","a","n","d"," ","m","e","c","h","a","n","i","c","s">>, file |-> <<"d",
            "u","n","g","e","o","n",".","c">> ] >>,
    knowledge |-> <<
      [ topic |-> <<"M","a","g","i","c"," ","S","y","s","t","e","m"," ","I","m","p","l","e","m",
          "e","n","t","a","t","i","o","n">>, type |-> <<"i","m","p","l","e","m","e","n","t","a",
          "t","i","o","n">>,
        tags |-> {<<"m","a","g","i","c">>, <<"g","a","m","e","p","l","a","y">>, <<"z","e","l","d",
            "a","3">>},
        content |-> <<"T","h","e"," ","m","a","g","i","c"," ","s","y","s","t","e","m"," ","t","r",
            "a","c","k","s"," ","m","a","g","i","c"," ","p","o","i","n","t","s"," ","a","n","d",
            " ","h","a","n","d","l","e","s"," ","d","e","p","l","e","t","i","o","n"," ","w","h",
            "e","n"," ","u","s","i","n","g"," ","i","t","e","m","s"," ","l","i","k","e"," ","t",
            "h","e"," ","F","i","r","e"," ","R","o","d","."," ","T","h","e"," ","i","n","f","i",
            "n","i","t","e","-","m","a","g","i","c"," ","m","o","d"," ","p","a","t","c","h","e",
            "s"," ","t","h","e"," ","d","e","p","l","e","t","i","o","n"," ","r","o","u","t","i",
            "n","e"," ","t","o"," ","p","r","e","v","e","n","t"," ","m","a","g","i","c"," ","f",
            "r","o","m"," ","d","e","c","r","e","a","s","i","n","g",".">> ],
      [ topic |-> <<"S","N","E","S"," ","P","P","U"," ","O","v","e","r","v","i","e","w"
          >>, type |-> <<"a","r","c","h","i","t","e","c","t","u","r","e">>,
        tags |-> {<<"p","p","u">>, <<"g","r","a","p","h","i","c","s">>, <<"h","a","r","d","w","a",
            "r","e">>},
        content |-> <<"T","h","e"," ","P","i","c","t","u","r","e"," ","P","r","o","c","e","s","s",
            "i","n","g"," ","U","n","i","t"," ","h","a","n","d","l","e","s"," ","a","l","l"," ",
            "g","r","a","p","h","i","c","s"," ","r","e","n","d","e","r","i","n","g","."," ","I",
            "t"," ","s","u","p","p","o","r","t","s"," ","8"," ","b","a","c","k","g","r","o","u",
            "n","d"," ","m","o","d","e","s"," ","w","i","t","h"," ","d","i","f","f","e","r","e",
            "n","t"," ","c","a","p","a","b","i","l","i","t","i","e","s",","," ","1","2","8"," ",
            "h","a","r","d","w","a","r","e"," ","s","p","r","i","t","e","s"," ","(","O","A","M",
            ")",","," ","a","n","d"," ","m","u","l","t","i","p","l","e"," ","s","p","e","c","i",
            "a","l"," ","e","f","f","e","c","t","s"," ","l","i","k","e"," ","M","o","d","e"," ",
            "7"," ","r","o","t","a","t","i","o","n","/","s","c","a","l","i","n","g",".">> ],
      [ topic |-> <<"D","M","A"," ","T","r","a","n","s","f","e","r"," ","B","e","s","t"," ","P",
          "r","a","c","t","i","c","e","s">>, type |-> <<"b","e","s","t","_","p","r","a","c","t",
          "i","c","e">>,
        tags |-> {<<"d","m","a">>, <<"v","b","l","a","n","k">>, <<"p","e","r","f","o","r","m","a",
            "n","c","e">>},
        content |-> <<"D","M","A"," ","s","h","o","u","l","d"," ","b","e"," ","d","o","n","e"," ",
            "d","u","r","i","n","g"," ","V","-","B","l","a","n","k"," ","t","o"," ","a","v","o",
            "i","d"," ","v","i","s","u","a","l"," ","a","r","t","i","f","a","c","t","s","."," ",
            "A","l","w","a","y","s"," ","s","e","t"," ","u","p"," ","D","M","A"," ","p","a","r",
            "a","m","e","t","e","r","s"," ","b","e","f","o","r","e"," ","e","n","a","b","l","i",
            "n","g","."," ","U","s","e"," ","H","D","M","A"," ","f","o","r"," ","p","e","r","-",
            "s","c","a","n","l","i","n","e"," ","e","f","f","e","c","t","s"," ","l","i","k","e",
            " ","g","r","a","d","i","e","n","t","s"," ","o","r"," ","p","a","r","a","l","l","a",
            "x"," ","s","c","r","o","l","l","i","n","g",".">> ] >> ]

\* a store whose magic mod and ppu register say nothing the vocabulary knows, with
\* knowledge items at the truncation and position thresholds
StoreEdge ==
  [ mods |-> <<
      [ name |-> <<"m","p","-","r","e","f","i","l","l">>, type |-> <<"m","a","g","i","c"
          >>, description |-> <<"x">>,
        bytes |-> 2, components |-> << >> ] >>,
    registers |-> <<
      [ address |-> <<"$","2","1","0","0">>, name |-> <<"I","N","I","D","I","S","P"
          >>, category |-> <<"p","p","u">>,
        description |-> <<"D","i","s","p","l","a","y">> ] >>,
    components |-> << >>,
    knowledge |-> <<
      [ topic |-> <<"W","o","r","k"," ","R","A","M">>, type |-> <<"k","n","o","w","l","e","d","g",
          "e">>, tags |-> {<<"w","r","a","m">>},
        content |-> <<"W","o","r","k"," ","R","A","M"," ","n","o","t","e","s",":"," ","w","r","a",
            "m"," ","h","o","l","d","s"," ","t","h","e"," ","g","a","m","e"," ","s","t","a","t",
            "e","."," ","f","i","l","l","e","r"," ","t","e","x","t"," ","f","i","l","l","e","r",
            " ","t","e","x","t"," ","f","i","l","l","e","r"," ","t","e","x","t"," ","f","i","l",
            "l","e","r"," ","t","e","x","t"," ","f","i","l","l","e","r"," ","t","e","x","t"," ",
            "f","i","l","l","e","r"," ","t","e","x","t"," ","f","i","l","l","e","r"," ","t","e",
            "x","t"," ","f","i","l","l","e","r"," ","t","e","x","t"," ","f","i","l","l","e","r",
            " ","t","e","x","t"," ","f","i","l","l","e","r"," ","t","e","x","t"," ","f","i","l",
            "l","e","r"," ","t","e","x","t"," ","f","i","l","l","e","r"," ","t","e","x","t"," ",
            "f","i","l","l","e","r"," ","t","e","x","t"," ","f">> ],
      [ topic |-> <<"S","a","v","e"," ","R","A","M">>, type |-> <<"k","n","o","w","l","e","d","g",
          "e">>, tags |-> {<<"w","r","a","m">>},
        content |-> <<"S","a","v","e"," ","R","A","M"," ","n","o","t","e","s",":"," ","w","r","a",
            "m"," ","m","i","r","r","o","r","s"," ","a","r","e"," ","n","o","t"," ","s","a","v",
            "e","d","."," ","f","i","l","l","e","r"," ","t","e","x","t"," ","f","i","l","l","e",
            "r"," ","t","e","x","t"," ","f","i","l","l","e","r"," ","t","e","x","t"," ","f","i",
            "l","l","e","r"," ","t","e","x","t"," ","f","i","l","l","e","r"," ","t","e","x","t",
            " ","f","i","l","l","e","r"," ","t","e","x","t"," ","f","i","l","l","e","r"," ","t",
            "e","x","t"," ","f","i","l","l","e","r"," ","t","e","x","t"," ","f","i","l","l","e",
            "r"," ","t","e","x","t"," ","f","i","l","l","e","r"," ","t","e","x","t"," ","f","i",
            "l","l","e","r"," ","t","e","x","t"," ","f","i","l","l","e","r"," ","t","e","x","t",
            " ","f","i","l","l","e","r"," ","t","e","x","t"," ","f">> ],
      [ topic |-> <<"m","a","g","i","c">>, type |-> <<"k","n","o","w","l","e","d","g","e"
          >>, tags |-> {<<"s","p","r","i","t","e">>},
        content |-> <<"s","p","r","i","t","e"," ","p","l","a","y","e","r"," ","d","u","n","g","e",
            "o","n"," ","p","p","u"," ",".",".",".",".",".",".",".",".",".",".",".",".",".",".",
            ".",".",".",".",".",".",".",".",".",".",".",".",".",".","h","b","l","a","n","k"," ",
            "t","a","i","l">> ] >> ]

StoreEmpty ==
  [ mods |-> << >>, registers |-> << >>, components |-> << >>, knowledge |-> << >> ]

\* a store holding a mod whose description was never set
StoreMalformed ==
  [ mods |-> <<
      [ name |-> <<"i","n","f","i","n","i","t","e","-","m","a","g","i","c">>, type |-> <<"m","a",
          "g","i","c">>, description |-> Null,
        bytes |-> 7, components |-> <<<<"p","l","a","y","e","r">>>> ] >>,
    registers |-> <<
      [ address |-> <<"$","2","1","0","0">>, name |-> <<"I","N","I","D","I","S","P"
          >>, category |-> <<"p","p","u">>,
        description |-> <<"S","c","r","e","e","n"," ","D","i","s","p","l","a","y"," ","R","e","g",
            "i","s","t","e","r">> ] >>,
    components |-> << >>,
    knowledge |-> << >> ]

\* a store crowded with magic mods, their name and description lengths around the
\* richness thresholds, one of them naming hdma past the first 50 characters
StoreCrowded ==
  [ mods |-> <<
      [ name |-> <<"m","a","g","i","c","-","a">>, type |-> <<"m","a","g","i","c">>,
        description |-> <<"r","e","f","i","l","l","s"," ","m","a","g","i","c",".",".",".",".",".",
            ".",".",".",".",".",".",".",".",".",".",".",".",".",".",".",".",".",".",".",".",".",
            ".",".">>,
        bytes |-> 1, components |-> << >> ],
      [ name |-> <<"m","a","g","i","c","-","b">>, type |-> <<"m","a","g","i","c">>,
        description |-> <<"r","e","f","i","l","l","s"," ","m","a","g","i","c",".",".",".",".",".",
            ".",".",".",".",".",".",".",".",".",".",".",".",".",".",".",".",".",".",".",".",".",
            ".",".",".">>,
        bytes |-> 2, components |-> << >> ],
      [ name |-> <<"m","a","g","i","c","-","c">>, type |-> <<"m","a","g","i","c">>,
        description |-> <<"r","e","f","i","l","l","s"," ","m","a","g","i","c",".",".",".",".",".",
            ".",".",".",".",".",".",".",".",".",".",".",".",".",".",".",".",".",".",".",".",".",
            ".",".",".",".">>,
        bytes |-> 3, components |-> << >> ],
      [ name |-> <<"m","a","g","i","c","-","d">>, type |-> <<"m","a","g","i","c">>,
        description |-> <<"r","e","f","i","l","l","s"," ","m","a","g","i","c",".",".",".",".",".",
            ".",".",".",".",".",".",".",".",".",".",".",".",".",".",".",".",".",".",".",".",".",
            ".",".",".",".",".",".",".",".",".",".",".",".",".",".",".",".",".",".",".",".",".",
            ".",".",".",".",".",".",".",".",".",".",".",".",".",".",".",".",".",".",".",".",".",
            ".",".",".",".",".",".",".",".",".",".">>,
        bytes |-> 4, components |-> << >> ],
      [ name |-> <<"m","a","g","i","c","-","e">>, type |-> <<"m","a","g","i","c">>,
        description |-> <<"r","e","f","i","l","l","s"," ","m","a","g","i","c",".",".",".",".",".",
            ".",".",".",".",".",".",".",".",".",".",".",".",".",".",".",".",".",".",".",".",".",
            ".",".",".",".",".",".",".",".",".",".",".",".",".",".",".",".",".",".",".",".",".",
            ".",".",".",".",".",".",".",".",".",".",".",".",".",".",".",".",".",".",".",".",".",
            ".",".",".",".",".",".",".",".",".",".",".">>,
        bytes |-> 5, components |-> << >> ],
      [ name |-> <<"m","a","g","i","c","-","f">>, type |-> <<"m","a","g","i","c">>,
        description |-> <<"r","e","f","i","l","l","s"," ","m","a","g","i","c",".",".",".",".",".",
            ".",".",".",".",".",".",".",".",".",".",".",".",".",".",".",".",".",".",".",".",".",
            ".",".",".",".",".",".",".",".",".",".",".",".",".","h","d","m","a",".",".",".",".",
            ".",".",".",".",".",".",".",".",".",".",".",".",".",".",".",".",".",".",".",".",".",
            ".",".",".",".",".",".",".",".",".",".",".",".">>,
        bytes |-> 6, components |-> << >> ] >>,
    registers |-> <<
      [ address |-> <<"$","4","3","0","0">>, name |-> <<"D","M","A","P","0">>, category |-> <<"d",
          "m","a">>,
        description |-> <<"D","M","A"," ","C","o","n","t","r","o","l">> ] >>,
    components |-> << >>,
    knowledge |-> <<
      [ topic |-> <<"M","a","g","i","c"," ","m","e","t","e","r">>, type |-> <<"k","n","o","w","l",
          "e","d","g","e">>, tags |-> {<<"m","a","g","i","c">>},
        content |-> <<"T","h","e"," ","m","a","g","i","c"," ","m","e","t","e","r"," ","i","s"," ",
            "s","t","o","r","e","d"," ","i","n"," ","w","o","r","k"," ","r","a","m",".">> ],
      [ topic |-> <<"M","a","g","i","c"," ","a","n","d"," ","H","D","M","A">>, type |-> <<"k","n",
          "o","w","l","e","d","g","e">>, tags |-> {<<"m","a","g","i","c">>},
        content |-> <<"m","a","g","i","c"," ","e","f","f","e","c","t","s"," ","d","r","i","v","e",
            " ","h","d","m","a"," ","t","a","b","l","e","s",":"," ",".",".",".",".",".",".",".",
            ".",".",".",".",".",".",".",".",".",".",".",".",".",".",".",".",".",".",".",".",".",
            ".",".",".",".",".",".",".",".",".",".",".",".",".",".",".",".",".",".",".",".",".",
            ".",".",".",".",".",".",".",".",".",".",".",".",".",".",".",".",".",".",".",".","."
            >> ],
      [ topic |-> <<"M","a","g","i","c"," ","r","e","f","i","l","l">>, type |-> <<"k","n","o","w",
          "l","e","d","g","e">>, tags |-> {<<"m","a","g","i","c">>},
        content |-> <<"P","o","t","i","o","n","s"," ","r","e","f","i","l","l"," ","m","a","g","i",
            "c",".">> ] >> ]

Q_Hello == <<"h","e","l","l","o"," ","w","o","r","l","d">>
Q_Magic == <<"H","o","w"," ","d","o","e","s"," ","i","n","f","i","n","i","t","e"," ","m","a","g",
    "i","c"," ","w","o","r","k"," ","w","i","t","h"," ","P","P","U"," ","r","e","g","i","s","t",
    "e","r","s","?">>
Q_Asm == <<"l","d","a"," ","s","t","a">>
Q_Addr == <<"w","h","a","t"," ","i","s"," ","a","t"," ","$","2","1","0","0">>
Q_Mixed == <<"m","a","g","i","c"," ","i","n"," ","L","D","A"," ","S","T","A"," ","a","t"," ","$",
    "2","1","0","0">>
Q_Default == <<"m","e","m","o","r","y"," ","b","a","n","k">>
Q_Five == <<"m","a","g","i","c"," ","s","p","r","i","t","e"," ","p","l","a","y","e","r"," ","d",
    "u","n","g","e","o","n"," ","p","p","u">>
Q_Six == <<"m","a","g","i","c"," ","s","p","r","i","t","e"," ","p","l","a","y","e","r"," ","d",
    "u","n","g","e","o","n"," ","p","p","u"," ","h","b","l","a","n","k">>
Q_Wram == <<"w","r","a","m">>
Q_Both == <<"I","n","f","i","n","i","t","e","-","M","a","g","i","c"," ","o","r"," ","i","n","f",
    "i","n","i","t","e"," ","m","a","g","i","c"," ","w","i","t","h"," ","H","D","M","A"," ","a",
    "t"," ","$","2","1","0","0">>
Q_Case == <<"$","7","e","0","0","0","0"," ","a","n","d"," ","$","7","E","0","0","0","0">>
Q_Eleven == <<"$","2","1","0","0"," ","$","2","1","0","1"," ","$","2","1","0","2"," ","$","2","1",
    "0","3"," ","$","2","1","0","4"," ","$","2","1","0","5"," ","$","2","1","0","6"," ","$","2",
    "1","0","7"," ","$","4","2","0","0"," ","$","4","2","0","1"," ","$","1","2","3","4","5">>
Q_Digits == <<"$","1","2","3","4","5","6","7"," ","$","1","2","3","4","5"," ","$","2","1"," ","$",
    "4","2","0","0">>
Q_Ops == <<"l","d","a"," ","L","D","A"," ","s","t","a"," ","j","s","r"," ","j","m","p"," ","b",
    "e","q"," ","b","n","e">>
Q_Crowd == <<"l","d","x"," ","l","d","a"," ","s","t","a"," ","j","s","r"," ","j","m","p"," ","b",
    "e","q">>
Q_Hdma == <<"m","a","g","i","c"," ","h","d","m","a">>
Q_HdmaAsm == <<"m","a","g","i","c"," ","h","d","m","a"," ","l","d","a"," ","s","t","a"," ","$",
    "2","1","0","0">>

Prompt(q, m) == [query |-> q, max_items |-> m]

\* the runs: a store, whether mcp_client imports, and the prompts submitted
Scenarios ==
  << [ store |-> StorePopulated, mcp |-> TRUE,
       prompts |-> << Prompt(Q_Hello, 10), Prompt(Q_Magic, 10), Prompt(Q_Magic, 1),
                      Prompt(Q_Magic, 0), Prompt(Q_Magic, -1), Prompt(Q_Asm, 10),
                      Prompt(Q_Addr, 10), Prompt(Q_Mixed, 10), Prompt(Q_Default, 10),
                      Prompt(Q_Five, 10) >> ],
     [ store |-> StorePopulated, mcp |-> FALSE,
       prompts |-> << Prompt(Q_Magic, 10), Prompt(Q_Mixed, 10), Prompt(Q_Addr, 10) >> ],
     [ store |-> StoreEdge, mcp |-> TRUE,
       prompts |-> << Prompt(Q_Magic, 10), Prompt(Q_Wram, 10), Prompt(Q_Five, 10),
                      Prompt(Q_Six, 10) >> ],
     [ store |-> StoreCrowded, mcp |-> TRUE,
       prompts |-> << Prompt(Q_Hdma, 10), Prompt(Q_HdmaAsm, 10) >> ],
     [ store |-> StoreEmpty, mcp |-> TRUE,
       prompts |-> << Prompt(Q_Hello, 10), Prompt(Q_Addr, 10), Prompt(Q_Magic, 10),
                      Prompt(Q_Both, 10), Prompt(Q_Case, 10), Prompt(Q_Eleven, 10),
                      Prompt(Q_Digits, 10), Prompt(Q_Ops, 10), Prompt(Q_Crowd, 10) >> ],
     [ store |-> StoreMalformed, mcp |-> TRUE,
       prompts |-> << Prompt(Q_Magic, 10) >> ] >>

\* the prompts submitted against a store
PromptsFor(st, mcpAvail) ==
  UNION { Range(Scenarios[i].prompts) :
            i \in {j \in 1..Len(Scenarios) :
                     Scenarios[j].store = st /\ Scenarios[j].mcp = mcpAvail} }

\* hash seeds 0..MaxSeed
MaxSeed == 1
Seeds == 0..MaxSeed

Faults == {"none", "mods", "registers", "components", "knowledge"}

----------------------------------------------------------------------------
(* The pipeline as a state machine *)

\* no context obtained yet for the current prompt
NotYet == <<(<<"not yet">>)>>

Init ==
  /\ \E i \in 1..Len(Scenarios) :
       /\ store = Scenarios[i].store
       /\ mcp = Scenarios[i].mcp
       /\ prompt \in Range(Scenarios[i].prompts)
  /\ seed \in Seeds
  \* __init__: no password: no attempt; else one attempt, which succeeds or not
  /\ \E password \in BOOLEAN, reachable \in BOOLEAN :
       /\ connects = IF password THEN 1 ELSE 0
       /\ driver = IF password /\ reachable THEN "open" ELSE "none"
  /\ call = [op |-> "__init__"]
  /\ injected = NotYet

\* the host turns to another prompt
Submit ==
  /\ \E p \in PromptsFor(store, mcp) : prompt' = p
  /\ call' = [op |-> "submit"]
  /\ injected' = NotYet
  /\ UNCHANGED <<driver, connects, seed, mcp, store>>

\* a new interpreter process constructs a new pipeline (each hook invocation does)
Restart ==
  /\ seed' \in Seeds
  /\ \E password \in BOOLEAN, reachable \in BOOLEAN :
       /\ connects' = IF password THEN 1 ELSE 0
       /\ driver' = IF password /\ reachable THEN "open" ELSE "none"
  /\ call' = [op |-> "__init__"]
  /\ UNCHANGED <<mcp, store, prompt, injected>>

IsAvailable ==
  /\ call' = [op |-> "is_available", ret |-> is_available(driver)]
  /\ UNCHANGED <<driver, connects, seed, mcp, store, prompt, injected>>

\* close(): closes the driver, self.driver keeps the closed object
Close ==
  /\ driver' = IF driver = "none" THEN "none" ELSE "closed"
  /\ call' = [op |-> "close"]
  /\ UNCHANGED <<connects, seed, mcp, store, prompt, injected>>

BuildContext ==
  \E fault \in Faults :
    /\ call' = [op |-> "build_context", fault |-> fault,
                out |-> build_context(prompt.query, prompt.max_items, driver, store, seed,
                                      mcp, fault)]
    \* the host keeps the first context it got for the prompt
    /\ injected' = IF injected = NotYet /\ driver = "open" /\ ~call'.out.raised
                     THEN call'.out.ret ELSE injected
    /\ UNCHANGED <<driver, connects, seed, mcp, store, prompt>>

\* get_relevant_mods / _registers / _components / _knowledge called directly
\* variant: a retrieval on a pipeline without driver asks for a connection again
GetRelevantReconnecting ==
  \E i \in 1..Len(Families) :
    /\ driver' = IF driver = "none" THEN "open" ELSE driver
    /\ connects' = IF driver = "none" THEN 1 ELSE connects
    /\ call' = [op |-> "get_relevant", family |-> Families[i], fault |-> "none",
                got |-> get_relevant(Families[i], extract_keywords(prompt.query), driver',
                                     store, "none")]
    /\ UNCHANGED <<seed, mcp, store, prompt, injected>>

GetRelevant ==
  \E i \in 1..Len(Families) : \E fault \in {"none", Families[i]} :
    /\ call' = [op |-> "get_relevant", family |-> Families[i], fault |-> fault,
                got |-> get_relevant(Families[i], extract_keywords(prompt.query), driver,
                                     store, fault)]
    /\ UNCHANGED <<driver, connects, seed, mcp, store, prompt, injected>>

Next == Submit \/ Restart \/ IsAvailable \/ Close \/ BuildContext \/ GetRelevant

Spec == Init /\ [][Next]_vars

----------------------------------------------------------------------------
(* The scoring function on its own: calculate_relevance_score applied to the *)
(* rows of the store under the keywords of the prompt                        *)

\* every row of the store, tagged as build_context tags it
store_items(st) ==
  tagged(st.mods, "mod") \o tagged(st.registers, "register")
    \o tagged(st.components, "component") \o tagged(st.knowledge, "knowledge")

\* the result of one scoring call, None.lower() raising
scored(item, query, keywords, sd) ==
  [op |-> "calculate_relevance_score", item |-> item, keywords |-> keywords,
   raised |-> score_raises(item),
   score |-> IF score_raises(item) THEN 0
             ELSE calculate_relevance_score(item, query, keywords, sd)]

Score ==
  /\ \E i \in 1..Len(store_items(store)) :
       call' = scored(store_items(store)[i], prompt.query, extract_keywords(prompt.query), seed)
  /\ UNCHANGED <<driver, connects, seed, mcp, store, prompt, injected>>

ScoreNext == Submit \/ Restart \/ Score

ScoreSpec == Init /\ [][ScoreNext]_vars

----------------------------------------------------------------------------
(* get_rag_context: the entry point of the hooks.  It constructs a pipeline of *)
(* its own, asks it once with the default max_items and closes it.            *)

\* Optional[str]: the string s (None is the other value)
Some(s) == [none |-> FALSE, value |-> s]

\* default of build_context's max_items
default_max_items == 10

\* variant: no except clause, an exception of build_context leaves the function
hook_uncaught(context) ==
  [available |-> TRUE, context |-> context, raised |-> context.raised,
   closed |-> ~context.raised,
   ret |-> IF context.ret # << >> THEN Some(context.ret) ELSE None]

\* lines 605-613: close, `context if context else None`; except Exception: None
hook_result(context) ==
  [available |-> TRUE, context |-> context, raised |-> FALSE,
   \* rag.close() is the statement after build_context: an exception skips it
   closed |-> ~context.raised,
   ret |-> IF ~context.raised /\ context.ret # << >> THEN Some(context.ret) ELSE None]

\* get_rag_context(query) with the driver its pipeline got at construction
get_rag_context(query, drv, st, sd, mcpAvail, fault) ==
  IF ~is_available(drv) THEN [available |-> FALSE, raised |-> FALSE, ret |-> None]
  ELSE hook_result(build_context(query, default_max_items, drv, st, sd, mcpAvail, fault))

GetRagContext ==
  /\ \E password \in BOOLEAN, reachable \in BOOLEAN :
       \E fault \in (IF password /\ reachable THEN Faults ELSE {"none"}) :
         call' = [op |-> "get_rag_context", fault |-> fault,
                  res |-> get_rag_context(prompt.query,
                                          IF password /\ reachable THEN "open" ELSE "none",
                                          store, seed, mcp, fault)]
  /\ UNCHANGED <<driver, connects, seed, mcp, store, prompt, injected>>

HookNext == Submit \/ Restart \/ GetRagContext

HookSpec == Init /\ [][HookNext]_vars

----------------------------------------------------------------------------
(* extract_keywords and the two detectors on their own, applied to the prompt *)

ExtractKeywords ==
  /\ call' = [op |-> "extract_keywords", keywords |-> extract_keywords(prompt.query)]
  /\ UNCHANGED <<driver, connects, seed, mcp, store, prompt, injected>>

DetectInstructions ==
  /\ call' = [op |-> "detect_and_explain_instructions",
              help |-> detect_and_explain_instructions(prompt.query, mcp, seed)]
  /\ UNCHANGED <<driver, connects, seed, mcp, store, prompt, injected>>

DetectAddresses ==
  /\ call' = [op |-> "detect_and_explain_addresses",
              info |-> detect_and_explain_addresses(prompt.query, mcp, seed)]
  /\ UNCHANGED <<driver, connects, seed, mcp, store, prompt, injected>>

DetectNext == Submit \/ Restart \/ ExtractKeywords \/ DetectInstructions \/ DetectAddresses

DetectSpec == Init /\ [][DetectNext]_vars

----------------------------------------------------------------------------
(* Properties *)

\* whether an output has a part of the given kind
has_part(ret, kind) == \E i \in 1..Len(ret) : ret[i][1] = kind

\* the last step was a build_context call that returned to its caller
Returned == call.op = "build_context" /\ ~call.out.raised

\* the last step was a build_context call that got as far as returning from rerank_results
Reranked == Returned /\ call.out.all_items # << >>

\* the score the last build_context call gave a candidate
score_of(item) == calculate_relevance_score(item, prompt.query, call.out.keywords, seed)

\* the candidates of the last build_context call with a score above 0
positive_items == LET Pos(item) == score_of(item) > 0 IN SelectSeq(call.out.all_items, Pos)

\* C1: build_context never raises, whatever the query, max_items and the store do:
\* a failing store query or a malformed record gives partial or empty output.
C1_build_context_never_raises == call.op = "build_context" => ~call.out.raised

\* C2: whenever a detector resolves something for the query, the output of
\* build_context has the matching enrichment section, whatever the keyword set
\* and the retrieved candidates are.
C2_enrichment_whenever_detected ==
  (Returned /\ driver = "open") =>
    /\ detect_and_explain_instructions(prompt.query, mcp, seed) # << >>
         => has_part(call.out.ret, "instructions_header")
    /\ detect_and_explain_addresses(prompt.query, mcp, seed) # << >>
         => has_part(call.out.ret, "addresses_header")

\* C3: a query in which no vocabulary phrase occurs gets "" from build_context,
\* and no retrieval is issued to the store on the way.
C3_no_keyword_no_retrieval ==
  (call.op = "build_context" /\ extract_keywords(prompt.query) = {}) =>
    /\ ~call.out.raised
    /\ call.out.ret = << >>
    /\ call.out.sessions = << >>

\* "hello world" against an open store whose mod query would have failed
C3_hello_world ==
  /\ call.op = "build_context" /\ driver = "open"
  /\ prompt.query = Q_Hello /\ call.out.keywords = {}
  /\ call.fault = "mods" /\ call.out.ret = << >> /\ ~call.out.raised

\* C4: build_context called again with the same query and max_items against the
\* unchanged store returns the very same output, enrichment entries included.
C4_idempotent ==
  (Returned /\ driver = "open" /\ injected # NotYet) => call.out.ret = injected

C6_score_monotonic ==
  (call.op = "calculate_relevance_score" /\ ~call.raised) =>
    \A j \in 1..Len(all_keywords) :
      LET k == normalize_keyword(all_keywords[j])
      IN  (k \notin call.keywords /\ Contains(searchable_text(call.item), k)) =>
            calculate_relevance_score(call.item, prompt.query, call.keywords \cup {k}, seed)
              >= call.score

\* build_context returned for the infinite-magic query with the default max_items
MagicQuery ==
  /\ Returned /\ driver = "open" /\ call.fault = "none"
  /\ prompt.query = Q_Magic /\ prompt.max_items = 10

\* the candidates of one family are all narrowed as the query asks
narrowed ==
  \A i \in 1..Len(call.out.all_items) :
    LET item == call.out.all_items[i]
    IN  /\ item._type = "mod" => item.type = <<"m","a","g","i","c">>
        /\ item._type = "register" => item.category = <<"p","p","u">>

shown_knowledge == SliceTo(of_type(call.out.ranked_items, "knowledge"), 2)

\* the knowledge lines of the output
knowledge_lines == LET Is(part) == part[1] = "knowledge" IN SelectSeq(call.out.ret, Is)

\* C8: a knowledge item's content longer than 200 characters is shown as its
\* first 200 characters followed by "...", shorter content is shown unchanged.
C8_knowledge_truncation ==
  Returned =>
    \/ call.out.ret = << >>
    \/ /\ Len(knowledge_lines) = Len(shown_knowledge)
       /\ \A i \in 1..Len(knowledge_lines) :
            LET content == shown_knowledge[i].content
            IN  /\ knowledge_lines[i][2] = shown_knowledge[i].topic
                /\ Len(content) > 200 =>
                     knowledge_lines[i][3] = SubSeq(content, 1, 200) \o <<".",".",".">>
                /\ Len(content) <= 200 => knowledge_lines[i][3] = content

\* contents of 200 and of 201 characters side by side
C8_at_the_threshold ==
  /\ Returned /\ Len(knowledge_lines) = 2
  /\ Len(shown_knowledge[1].content) = 200 /\ Len(knowledge_lines[1][3]) = 200
  /\ Len(shown_knowledge[2].content) = 201 /\ Len(knowledge_lines[2][3]) = 203

\* the line kind that follows a section header
first_item(header) ==
  CASE header = "mods_header" -> "mod"
    [] header = "registers_header" -> "register"
    [] header = "components_header" -> "component"
    [] header = "knowledge_header" -> "knowledge"
    [] header = "instructions_header" -> "instruction"
    [] header = "addresses_header" -> "address"

Headers ==
  {"mods_header", "registers_header", "components_header", "knowledge_header",
   "instructions_header", "addresses_header"}

\* C9: whatever build_context returns is "" or a well-formed context: banner
\* first, footer last, at least one section between, every section header
\* followed by an item line of its family (a call that raises returns nothing:
\* that is C1).
C9_well_formed ==
  Returned =>
    LET ret == call.out.ret
    IN  \/ ret = << >>
        \/ /\ Len(ret) >= 4
           /\ ret[1] = <<"header">>
           /\ ret[Len(ret)][1] \in {"footer", "footer_mcp"}
           /\ ret[2][1] \in Headers
           /\ \A i \in 2..(Len(ret) - 1) :
                /\ ret[i][1] \notin {"header", "footer", "footer_mcp"}
                /\ ret[i][1] \in Headers =>
                     i + 1 < Len(ret) /\ ret[i + 1][1] = first_item(ret[i][1])

\* an output with family sections and both enrichment sections
C9_all_kinds_of_sections ==
  /\ Returned
  /\ has_part(call.out.ret, "mods_header") /\ has_part(call.out.ret, "knowledge_header")
  /\ has_part(call.out.ret, "instructions_header") /\ has_part(call.out.ret, "addresses_header")

\* C10: a pipeline whose connection was not established at construction stays
\* unavailable through every later call: is_available() is false, build_context
\* returns "", get_relevant_* return [], and no connection is attempted again.
C10_permanently_unavailable ==
  [][(driver = "none" /\ call'.op # "__init__") =>
       /\ driver' = "none"
       /\ connects' = connects
       /\ call'.op = "is_available" => ~call'.ret
       /\ call'.op = "build_context" =>
            call'.out.ret = << >> /\ ~call'.out.raised /\ call'.out.sessions = << >>
       /\ call'.op = "get_relevant" =>
            call'.got.rows = << >> /\ ~call'.got.raised /\ ~call'.got.session]_vars

\* the one connection attempt failed, and a query with keywords still gets ""
C10_failed_connection ==
  /\ driver = "none" /\ connects = 1
  /\ call.op = "build_context" /\ extract_keywords(prompt.query) # {}
  /\ call.out.ret = << >> /\ ~call.out.raised

\* C11: get_rag_context never raises; it returns None when the store is
\* unavailable, when build_context gives "" and when build_context raises, and
\* otherwise exactly the non-empty string build_context produced.
C11_hook_never_raises ==
  call.op = "get_rag_context" =>
    /\ ~call.res.raised
    /\ ~call.res.available => call.res.ret = None
    /\ call.res.available =>
         IF call.res.context.raised \/ call.res.context.ret = << >>
           THEN call.res.ret = None
           ELSE call.res.ret = Some(call.res.context.ret)

\* a failing register query inside build_context: the hook answers None
C11_exception_swallowed ==
  /\ call.op = "get_rag_context" /\ call.fault = "registers"
  /\ call.res.available /\ call.res.context.raised
  /\ call.res.ret = None /\ ~call.res.raised

\* the rows a family contributes to the merged list when the query of family
\* failed gives nothing
rows_without(family, t, failed) ==
  IF family = failed THEN << >>
  ELSE tagged(run_query(family, store, call.out.keywords), t)

\* C12: each get_relevant_* returns [] when the store is unavailable and when its
\* query fails, and never raises; so a failure in one family leaves the rows of
\* the other families in the merged candidate list of build_context.
C12_retrieval_tolerates_failure ==
  /\ (call.op = "get_relevant" /\ (driver = "none" \/ call.fault # "none")) =>
       ~call.got.raised /\ call.got.rows = << >>
  /\ (call.op = "build_context" /\ driver = "open" /\ call.out.keywords # {}
        /\ call.fault # "none") =>
       call.out.all_items =
         rows_without("mods", "mod", call.fault)
           \o rows_without("registers", "register", call.fault)
           \o rows_without("components", "component", call.fault)
           \o rows_without("knowledge", "knowledge", call.fault)

\* C13: calculate_relevance_score depends on the candidate, the query and the
\* keyword set only: whatever the order the set is iterated in, the value is the same.
C13_score_order_independent ==
  (call.op = "calculate_relevance_score" /\ ~call.raised) =>
    \A sd \in Seeds :
      calculate_relevance_score(call.item, prompt.query, call.keywords, sd) = call.score

\* a scoring call that returned
ScoredCall == call.op = "calculate_relevance_score" /\ ~call.raised

\* the keywords of the call that occur in the candidate's searchable text
matching_keywords == {kw \in call.keywords : Contains(searchable_text(call.item), kw)}

\* index of the first occurrence of a matching keyword
first_index(kw) == find(searchable_text(call.item), kw)

hit_component ==
  IF 2 * Cardinality(matching_keywords) <= 10 THEN 2 * Cardinality(matching_keywords) ELSE 10

exact_component ==
  IF Contains(searchable_text(call.item), lower(prompt.query)) THEN 5 ELSE 0

richness_component ==
  IF Len(searchable_text(call.item)) > 100 THEN 2
  ELSE IF Len(searchable_text(call.item)) > 50 THEN 1 ELSE 0

\* the positional rule over the whole set: the best tier any keyword reaches
best_tier ==
  IF \E kw \in matching_keywords : first_index(kw) < 50 THEN 3
  ELSE IF \E kw \in matching_keywords : first_index(kw) < 100 THEN 2
  ELSE 0

\* C14: the positional component is +3 if some keyword first occurs before index
\* 50, otherwise +2 if some keyword first occurs before index 100, otherwise 0.
C14_positional_tiers ==
  ScoredCall =>
    call.score - hit_component - exact_component - richness_component = best_tier

\* places in the iteration order of the keywords that occur before index 100
near_places ==
  {i \in 1..Cardinality(call.keywords) :
     /\ set_iter(call.keywords, seed)[i] \in matching_keywords
     /\ first_index(set_iter(call.keywords, seed)[i]) < 100}

\* the keyword the positional loop stops at
deciding_keyword ==
  set_iter(call.keywords, seed)[CHOOSE i \in near_places : \A j \in near_places : i <= j]

\* the positional component: the tier of the first keyword, in iteration order,
\* that occurs before index 100
positional_component ==
  IF near_places = {} THEN 0
  ELSE IF first_index(deciding_keyword) < 50 THEN 3 ELSE 2

\* the fields the searchable text is made of that the candidate has
text_fields == {k \in {"name", "description", "topic", "content"} : HasKey(call.item, k)}

RECURSIVE sum_len(_)
sum_len(ks) ==
  IF ks = {} THEN 0
  ELSE LET k == CHOOSE x \in ks : TRUE IN Len(call.item[k]) + sum_len(ks \ {k})

\* characters of the candidate's name/topic and description/content together
fields_length == sum_len(text_fields)

\* what is left of the score once hits, exact match and position are taken off
richness_given ==
  call.score - hit_component - exact_component - positional_component

\* C17 as stated: richness is +2 if the candidate's fields together exceed 100
\* characters, else +1 if they exceed 50, else 0 (so 99 or 100 give +1, 49 or 50 give 0).
C17_richness_of_fields ==
  ScoredCall =>
    richness_given = IF fields_length > 100 THEN 2 ELSE IF fields_length > 50 THEN 1 ELSE 0

\* C17: richness is +2 if the searchable text, each field followed by one space,
\* exceeds 100 characters, else +1 if it exceeds 50, else 0 (so name and description
\* of 99 or 100 characters together give +2, of 49 or 50 give +1).
C17_richness_of_text ==
  ScoredCall =>
    richness_given =
      IF fields_length + Cardinality(text_fields) > 100 THEN 2
      ELSE IF fields_length + Cardinality(text_fields) > 50 THEN 1 ELSE 0

\* candidates at the thresholds: fields of 99 or 100 characters scored +2, of 49 or 50 +1
C17_at_the_thresholds ==
  /\ ScoredCall /\ text_fields = {"name", "description"}
  /\ \/ fields_length \in {99, 100} /\ richness_given = 2
     \/ fields_length \in {49, 50} /\ richness_given = 1

\* C18: the hit component is min(2k, 10) for k keywords found in the searchable
\* text, the exact-query component is 5 exactly when the lowercased query is found
\* in it, and the score is the sum of hit, exact-query, positional and richness components.
C18_score_is_sum ==
  ScoredCall =>
    call.score = hit_component + exact_component + positional_component + richness_component

\* a candidate naming more than five keywords, its hit component capped
C18_capped_hits ==
  ScoredCall /\ Cardinality(matching_keywords) > 5 /\ hit_component = 10

\* the rows one retrieval of the last build_context call got from the store
family_rows(family, t) == tagged(run_query(family, store, call.out.keywords), t)

\* where a candidate stands in the merged list
place(item) == CHOOSE k \in 1..Len(call.out.all_items) : call.out.all_items[k] = item

\* C15: the merged list is all mods, then registers, components and knowledge,
\* each in retrieval order; the reranked list is in descending score order, and
\* candidates of equal score keep the relative order they had in the merged list.
C15_stable_descending ==
  Reranked =>
    /\ call.out.all_items =
         family_rows("mods", "mod") \o family_rows("registers", "register")
           \o family_rows("components", "component") \o family_rows("knowledge", "knowledge")
    /\ \A i \in 1..Len(call.out.ranked_items) :
         \E k \in 1..Len(call.out.all_items) : call.out.all_items[k] = call.out.ranked_items[i]
    /\ \A i, j \in 1..Len(call.out.ranked_items) :
         i < j =>
           \/ score_of(call.out.ranked_items[i]) > score_of(call.out.ranked_items[j])
           \/ /\ score_of(call.out.ranked_items[i]) = score_of(call.out.ranked_items[j])
              /\ place(call.out.ranked_items[i]) < place(call.out.ranked_items[j])

\* a mod and a knowledge item of equal score, a higher scoring candidate ranked before both
C15_tie_across_families ==
  /\ Reranked
  /\ \E i, j \in 2..Len(call.out.ranked_items) :
       /\ i < j
       /\ call.out.ranked_items[i]._type = "mod" /\ call.out.ranked_items[j]._type = "knowledge"
       /\ score_of(call.out.ranked_items[i]) = score_of(call.out.ranked_items[j])
       /\ place(call.out.ranked_items[1]) > place(call.out.ranked_items[i])

\* whether the keywords of the prompt infer a filter for a family's retrieval
has_filter(family) ==
  CASE family = "mods" -> mod_types(extract_keywords(prompt.query)) # {}
    [] family = "registers" -> register_category(extract_keywords(prompt.query)) # Null
    [] family = "components" -> component_names(extract_keywords(prompt.query)) # {}
    [] family = "knowledge" -> FALSE

\* C16: a mod, register or component retrieval returns at most 5 records when a
\* filter is inferred and at most 3 when none is; a knowledge retrieval at most 3.
C16_bounded_retrieval ==
  (call.op = "get_relevant" /\ ~call.got.raised) =>
    Len(call.got.rows) <= IF has_filter(call.family) THEN 5 ELSE 3

\* the item lines of one family in the output of the last build_context call
lines_of(kind) == LET Is(part) == part[1] = kind IN SelectSeq(call.out.ret, Is)

\* the ranked candidates of one family
ranked_of(t) == of_type(call.out.ranked_items, t)

\* C19: the output has at most 3 mod lines, 5 register lines, 3 component lines
\* and 2 knowledge lines, whatever max_items is and however many candidates of a
\* family were ranked.
C19_family_caps ==
  Returned =>
    /\ Len(lines_of("mod")) <= 3
    /\ Len(lines_of("register")) <= 5
    /\ Len(lines_of("component")) <= 3
    /\ Len(lines_of("knowledge")) <= 2

\* more mods and more knowledge items ranked than their sections show
C19_more_ranked_than_shown ==
  /\ Returned
  /\ Len(ranked_of("mod")) > 3 /\ Len(lines_of("mod")) = 3
  /\ Len(ranked_of("knowledge")) > 2 /\ Len(lines_of("knowledge")) = 2

\* the section a part of the output belongs to, numbered in the order of lines 464-529
section_of(kind) ==
  CASE kind = "header" -> 0
    [] kind \in {"mods_header", "mod"} -> 1
    [] kind \in {"registers_header", "register"} -> 2
    [] kind \in {"components_header", "component"} -> 3
    [] kind \in {"knowledge_header", "knowledge"} -> 4
    [] kind \in {"instructions_header", "instruction", "modes", "cycles", "flags", "notes"} -> 5
    [] kind \in {"addresses_header", "address", "address_description", "address_type"} -> 6
    [] kind \in {"footer", "footer_mcp"} -> 7

FamilyKinds == {"mod", "register", "component", "knowledge"}

\* what an item line shows first of its candidate: address, topic or name
shown_key(item) ==
  CASE item._type = "register" -> item.address
    [] item._type = "knowledge" -> item.topic
    [] OTHER -> item.name

\* where the candidate of an item line stands in the reranked list
ranked_place(line) ==
  CHOOSE k \in 1..Len(call.out.ranked_items) :
    /\ call.out.ranked_items[k]._type = line[1]
    /\ shown_key(call.out.ranked_items[k]) = line[2]

\* C20: the sections come in the order Mods, Registers, Components, Knowledge,
\* instructions, addresses, whatever the scores are; the item lines of a family
\* section follow the reranked order, their scores never increasing.
C20_fixed_section_order ==
  (Returned /\ call.out.ret # << >>) =>
    \A i, j \in 1..Len(call.out.ret) :
      i < j =>
        /\ section_of(call.out.ret[i][1]) <= section_of(call.out.ret[j][1])
        /\ (call.out.ret[i][1] \in FamilyKinds /\ call.out.ret[j][1] = call.out.ret[i][1]) =>
             /\ ranked_place(call.out.ret[i]) < ranked_place(call.out.ret[j])
             /\ score_of(call.out.ranked_items[ranked_place(call.out.ret[i])])
                  >= score_of(call.out.ranked_items[ranked_place(call.out.ret[j])])

\* a knowledge item that outscores a mod shown before it, the mods shown in falling score
C20_sections_against_scores ==
  /\ Returned
  /\ Len(lines_of("mod")) > 1 /\ Len(lines_of("knowledge")) > 0
  /\ score_of(ranked_of("knowledge")[1]) > score_of(ranked_of("mod")[2])
  /\ score_of(ranked_of("mod")[1]) > score_of(ranked_of("mod")[2])

\* the vocabulary phrases that occur in the lowercased prompt
occurring_phrases ==
  {all_keywords[i] : i \in {j \in 1..Len(all_keywords) :
                              Contains(lower(prompt.query), all_keywords[j])}}

\* token is the phrase with every space turned into a hyphen and its "$" taken off
normal_form(phrase, token) ==
  IF Head(phrase) = "$" THEN token = Tail(phrase)
  ELSE /\ Len(token) = Len(phrase)
       /\ \A i \in 1..Len(phrase) : token[i] = IF phrase[i] = " " THEN "-" ELSE phrase[i]

\* C21: extract_keywords returns exactly the normalized forms of the vocabulary
\* phrases that occur as substrings of the lowercased query; every token is
\* lowercase and has no space and no "$"; phrases of one normalized form give one token.
C21_keywords_of_vocabulary ==
  call.op = "extract_keywords" =>
    /\ \A k \in call.keywords : \E p \in occurring_phrases : normal_form(p, k)
    /\ \A p \in occurring_phrases : \E k \in call.keywords : normal_form(p, k)
    /\ \A k \in call.keywords :
         /\ lower(k) = k
         /\ \A i \in 1..Len(k) : k[i] # " " /\ k[i] # "$"

\* "infinite magic" and "infinite-magic" give one token, "$2100" gives 2100, and
\* dma is found inside HDMA
C21_phrases_merged ==
  /\ call.op = "extract_keywords"
  /\ {<<"i","n","f","i","n","i","t","e"," ","m","a","g","i","c">>, <<"i","n","f","i","n","i","t",
      "e","-","m","a","g","i","c">>, <<"$","2","1","0","0">>, <<"h","d","m","a"
      >>} \subseteq occurring_phrases
  /\ call.keywords = {<<"i","n","f","i","n","i","t","e","-","m","a","g","i","c">>, <<"m","a","g",
      "i","c">>, <<"2","1","0","0">>, <<"h","d","m","a">>, <<"d","m","a">>}

\* the last step was a call of the address detector with the reference lookups at hand
AddressesDetected == call.op = "detect_and_explain_addresses" /\ mcp

\* C22: the address enrichment list has no two entries for the same address,
\* also when the query writes one address in two letter cases.
C22_addresses_deduplicated ==
  AddressesDetected =>
    \A i, j \in 1..Len(call.info) : i # j => call.info[i].address # call.info[j].address

RECURSIVE word_run(_, _)
\* the number of word characters of text from index i on
word_run(text, i) ==
  IF i > Len(text) \/ ~is_word(text[i]) THEN 0 ELSE 1 + word_run(text, i + 1)

\* the words written right after a "$" in the prompt
dollar_words ==
  {SubSeq(prompt.query, i + 1, i + word_run(prompt.query, i + 1)) :
     i \in {j \in 1..Len(prompt.query) : prompt.query[j] = "$"}}

\* the "$" literals of exactly 4 or exactly 6 hexadecimal digits
address_literals ==
  {w \in dollar_words : Len(w) \in {4, 6} /\ \A i \in 1..Len(w) : is_hex(w[i])}

\* C23: at most 10 address entries, each for a "$" literal of exactly 4 or 6 hex
\* digits of the query; literals of other lengths change nothing: the list has an
\* entry for each such literal, up to the cap of 10.
C23_only_4_or_6_digits ==
  AddressesDetected =>
    /\ Len(call.info) <= 10
    /\ \A i \in 1..Len(call.info) :
         \E w \in address_literals : call.info[i].address = <<"$">> \o upper(w)
    /\ Len(call.info) =
         IF Cardinality(address_literals) < 10 THEN Cardinality(address_literals) ELSE 10

\* the last step was a call of the instruction detector
InstructionsDetected == call.op = "detect_and_explain_instructions"

\* the mnemonic stands in the prompt as a word of its own, in any letter case
whole_word(mnemonic) ==
  \E i \in 1..Len(prompt.query) :
    /\ i + Len(mnemonic) - 1 <= Len(prompt.query)
    /\ upper(SubSeq(prompt.query, i, i + Len(mnemonic) - 1)) = mnemonic
    /\ i = 1 \/ ~is_word(prompt.query[i - 1])
    /\ i + Len(mnemonic) > Len(prompt.query) \/ ~is_word(prompt.query[i + Len(mnemonic)])

\* the mnemonics of the prompt that the instruction reference knows
resolvable_mnemonics == {mn \in instructions : whole_word(mn)}

\* C24: at most 5 instruction entries, no mnemonic twice, each the reference
\* record of a known mnemonic that is a whole word of the query in some letter
\* case; a mnemonic without a reference record gives no entry.
C24_instruction_entries ==
  InstructionsDetected =>
    /\ Len(call.help) <= 5
    /\ \A i, j \in 1..Len(call.help) : i # j => call.help[i].mnemonic # call.help[j].mnemonic
    /\ \A i \in 1..Len(call.help) :
         /\ call.help[i].mnemonic \in resolvable_mnemonics
         /\ call.help[i] = snes_lookup_instruction(call.help[i].mnemonic)

\* six known mnemonics in the query, one of them in two letter cases, five entries
C24_cut_to_five ==
  /\ InstructionsDetected
  /\ Cardinality(resolvable_mnemonics) > 5
  /\ whole_word(<<"L","D","A">>) /\ Contains(prompt.query, <<"l","d","a"
      >>) /\ Contains(prompt.query, <<"L","D","A">>)
  /\ Len(call.help) = 5

\* C30: the caps hide no resolvable token: with fewer than 5 instruction entries
\* every mnemonic of the query that has a reference record is among them, and with
\* fewer than 10 address entries every 4- or 6-digit address of the query is.
C30_caps_hide_nothing ==
  /\ (InstructionsDetected /\ mcp /\ Len(call.help) < 5) =>
       \A mn \in resolvable_mnemonics : \E i \in 1..Len(call.help) : call.help[i].mnemonic = mn
  /\ (AddressesDetected /\ Len(call.info) < 10) =>
       \A w \in address_literals :
         \E i \in 1..Len(call.info) : call.info[i].address = <<"$">> \o upper(w)

\* C25: a build_context or retrieval call leaves the store as it was and uses the
\* connection made at construction: the driver is not replaced and no further
\* connection is attempted.
C25_read_only_one_connection ==
  [][(call'.op \in {"build_context", "get_relevant"}) =>
       (store' = store /\ driver' = driver /\ connects' = connects)]_vars

\* a retrieval that opened a session after a build_context call gave its context,
\* on the one connection made at construction
C25_second_call_same_driver ==
  /\ call.op = "get_relevant" /\ call.got.session /\ call.got.rows # << >>
  /\ injected # NotYet /\ injected # << >>
  /\ driver = "open" /\ connects = 1

\* the last build_context call returned a context that is not ""
NonEmpty == Returned /\ call.out.ret # << >>

\* the footer of the returned context
footer_line == call.out.ret[Len(call.out.ret)]

\* item lines of the Mods, Registers, Components and Knowledge sections
item_lines ==
  Len(lines_of("mod")) + Len(lines_of("register")) + Len(lines_of("component"))
    + Len(lines_of("knowledge"))

\* instruction and address entries of the enrichment sections
enrichment_entries == Len(lines_of("instruction")) + Len(lines_of("address"))

\* C26 as stated: the footer's item count is the number of item lines emitted, and
\* its enrichment count, when reported, the number of instruction and address entries.
C26_footer_counts_lines ==
  NonEmpty =>
    /\ footer_line[2] = item_lines
    /\ footer_line[1] = "footer_mcp" => footer_line[3] = enrichment_entries

\* C26: the footer's item count is the number of candidates in the reranked list,
\* whatever the per-family caps leave of them in the sections; its enrichment
\* count, when reported, is the number of instruction and address entries emitted.
C26_footer_counts_ranked ==
  NonEmpty =>
    /\ footer_line[2] = Len(call.out.ranked_items)
    /\ footer_line[1] = "footer_mcp" => footer_line[3] = enrichment_entries
    /\ footer_line[1] = "footer" => enrichment_entries = 0

\* a footer reporting more items than the sections show, and enrichments of both kinds
C26_more_counted_than_shown ==
  /\ NonEmpty /\ footer_line[1] = "footer_mcp"
  /\ footer_line[2] = Len(call.out.ranked_items)
  /\ footer_line[2] > item_lines
  /\ Len(lines_of("instruction")) > 1 /\ Len(lines_of("address")) > 0
  /\ footer_line[3] = enrichment_entries

\* the candidate's searchable text holds a keyword of the call or the whole lowercased query
relevant(item) ==
  \/ \E kw \in call.out.keywords : Contains(searchable_text(item), kw)
  \/ Contains(searchable_text(item), lower(prompt.query))

\* C27: every candidate in the reranked list is relevant to the query: a candidate
\* with no keyword hit and no exact-query hit is never ranked nor shown.
C27_only_relevant_ranked ==
  Reranked => \A i \in 1..Len(call.out.ranked_items) : relevant(call.out.ranked_items[i])

\* C28: whenever get_rag_context opened a store connection, it has closed it by
\* the time it returns, also when build_context raised and the exception was swallowed.
C28_connection_released ==
  (call.op = "get_rag_context" /\ call.res.available) => call.res.closed

\* C29: once close() was called on an available pipeline, is_available() is false
\* and build_context and the retrievals return the empty result without asking
\* the closed driver for a session.
C29_closed_is_unavailable ==
  driver = "closed" =>
    /\ call.op = "is_available" => ~call.ret
    /\ call.op = "get_relevant" =>
         ~call.got.session /\ ~call.got.raised /\ call.got.rows = << >>
    /\ call.op = "build_context" =>
         call.out.sessions = << >> /\ ~call.out.raised /\ call.out.ret = << >>

=============================================================================
